---------------------------- MODULE Spec2Model ----------------------------
(***************************************************************************)
(* Lifecycle-Checker: the AI analysis orchestration engine.                *)
(*                                                                         *)
(*   backend/services/azure_ai_service.py  driver, extractor, synthesizer  *)
(*   backend/services/excel_service.py     split_products_into_chunks      *)
(*   backend/api/analyze_routes.py         /analyze, /find_replacements    *)
(*                                                                         *)
(* Texts are sequences of tokens.  A token is one lexical unit of the      *)
(* model's answer: a brace, a triple-backtick fence, a run of whitespace,  *)
(* a word of prose, or a complete JSON fragment that holds no brace.       *)
(* Python values are tagged records ([kind |-> "dict", d |-> ...]).        *)
(***************************************************************************)
EXTENDS Integers, Sequences, FiniteSets, TLC

VARIABLES
    \* ---- extractor (_parse_json_from_response) ----
    ptext,        \* response_text handed to the extractor
    pstage,       \* position inside the extractor: "s1", "s2", "s3", "returned"
    pout,         \* the value returned (NotYet before the return)
    ptried,       \* the strategies whose decode was attempted, in order
    \* ---- partitioner (split_products_into_chunks) ----
    part_products,    \* products
    part_chunk_size,  \* chunk_size
    part_chunks,      \* the list returned (NotYet before the return)
    \* ---- synthesizer (_generate_fallback_json) ----
    fb_products,      \* products
    fb_is_replacement,\* is_replacement
    fb_first,         \* the value the first call returned (NotYet before it)
    fb_second,        \* the value the second call returned (NotYet before it)
    \* ---- one request to /analyze or /find_replacements ----
    endpoint,         \* "analyze" or "find_replacements"
    stream,           \* the request's stream flag
    request_products, \* the request's products value (the handler's products)
    env_ok,           \* whether AzureAIService() can be constructed
    agent,            \* what the external agent may do in this run: "any"
                      \* (raise, or return any text), or "reliable"
    azure_ai_service, \* the module global: "None" or "instance"
    pc,               \* position of the handler / of the event generator
    chunks,           \* chunks
    all_results,      \* all_results
    conversation_id,  \* the coordinator's conversation_id (0 is None)
    idx,              \* 1-based index of the chunk being streamed
    task,             \* per chunk: st, attempt, slept, arg (driver state) and
                      \* out, how the chunk's last call ended
    envelope,         \* per chunk: what the driver returned / its result event
    events,           \* the events yielded so far
    response,         \* the HTTP response / terminal event (NotYet before it)
    \* ---- environment ----
    today,            \* datetime.now().strftime("%Y-%m-%d")
    calls,            \* the external agent calls made so far: batch, attempt, token
    \* ---- concurrent requests of one process ----
    runs,             \* per request thread: mode, pc, the service it obtained,
                      \* its conversation_id, the argument bound at submit,
                      \* and the state of each of its chunks
    constructions,    \* how often AzureAIService() returned an instance
    run_calls,        \* the agent calls made by the threads: run, batch, token
    returned,         \* the response ids the agent has returned so far
    \* ---- chat service (src/app.py) ----
    session_conversations,  \* the module-level dict: session id -> token (0: no entry)
    chat_log,               \* the /chat and /clear requests served so far, in order
    chat_response           \* the last HTTP response of /chat or /clear

parseVars == <<ptext, pstage, pout, ptried>>
partVars == <<part_products, part_chunk_size, part_chunks>>
fbVars == <<fb_products, fb_is_replacement, fb_first, fb_second>>
reqVars == <<endpoint, stream, request_products, env_ok, agent>>
runVars == <<azure_ai_service, pc, chunks, all_results, conversation_id, idx, task,
             envelope, events, response>>
envVars == <<today, calls>>
conVars == <<runs, constructions, run_calls, returned>>
chatVars == <<session_conversations, chat_log, chat_response>>
vars == <<parseVars, partVars, chatVars, fbVars, reqVars, runVars, envVars, conVars>>

-----------------------------------------------------------------------------
(* Bounds of the model *)
MaxTextLen == 5          \* tokens in an enumerated response text
MaxPartLen == 12         \* products handed to the partitioner
MaxChunkSize == 5        \* chunk_size handed to the partitioner
MaxFbLen == 2            \* products handed to the synthesizer

-----------------------------------------------------------------------------
(* Python values *)

PyNone == [kind |-> "None"]
PyList(items) == [kind |-> "list", items |-> items]
PyDict(d) == [kind |-> "dict", d |-> d]
PyScalar == [kind |-> "scalar"]
PyStr(s) == [kind |-> "str", s |-> s]
NotYet == [kind |-> "not-yet"]

\* Python truthiness of a decoded JSON value
Truthy(v) ==
    CASE v.kind = "None" -> FALSE
      [] v.kind = "list" -> v.items # <<>>
      [] v.kind = "dict" -> DOMAIN v.d # {}
      [] v.kind = "str" -> v.s # ""
      [] OTHER -> TRUE

\* isinstance(v, dict) and 'results' in v
HasResults(v) == v.kind = "dict" /\ "results" \in DOMAIN v.d

Min(a, b) == IF a <= b THEN a ELSE b

-----------------------------------------------------------------------------
(* Tokens of a response text *)

Tok(c) == [c |-> c, n |-> 0]
LB == Tok("{")            \* {
RB == Tok("}")            \* }
FENCE == Tok("F")         \* ```
TAG == Tok("j")           \* the word json
WS == Tok("w")            \* whitespace
PROSE == Tok("x")         \* a word of prose
KV == Tok("k")            \* the member "k": 1
LST == Tok("L")           \* the literal []
NUM == Tok("1")           \* the literal 1
\* the member "results": [n rows]; RES(-1) is "results": null
RES(n) == [c |-> "R", n |-> n]

\* a row as the agent writes it (spec.md, Scenario A)
ModelRow ==
    [manufacturer |-> "BANNER", part_number |-> "45136", ai_status |-> "Active",
     notes_by_ai |-> "x", ai_confidence |-> "High"]

\* a row that lacks four of the five fields
PartialRow == [manufacturer |-> "BANNER"]

\* the five field names, as one string
FIELD_NAMES == "manufacturer part_number ai_status notes_by_ai ai_confidence"

\* the value of the member "results" written as RES(n): n rows for n >= 0,
\* null for -1, [1] for -2, [a partial row] for -3, ["x"] for -4 and
\* [a string naming the five fields] for -5
ResultsValue(n) ==
    CASE n >= 0 -> PyList([r \in 1..n |-> ModelRow])
      [] n = -2 -> PyList(<<PyScalar>>)
      [] n = -3 -> PyList(<<PartialRow>>)
      [] n = -4 -> PyList(<<PyStr("x")>>)
      [] n = -5 -> PyList(<<PyStr(FIELD_NAMES)>>)
      [] OTHER -> PyNone

\* number of { minus number of } in s[a..b]
Depth(s, a, b) ==
    Cardinality({j \in a..b : s[j].c = "{"}) - Cardinality({j \in a..b : s[j].c = "}"})

\* str.strip()
Strip(s) ==
    LET keep == {i \in 1..Len(s) : s[i].c # "w"}
    IN IF keep = {} THEN <<>>
       ELSE LET lo == CHOOSE i \in keep : \A j \in keep : i <= j
                hi == CHOOSE i \in keep : \A j \in keep : j <= i
            IN SubSeq(s, lo, hi)

\* t is the text of one JSON object: { ... } closed by its own last brace,
\* holding only members, nested objects and whitespace
IsObject(t) ==
    /\ Len(t) >= 2
    /\ t[1].c = "{"
    /\ t[Len(t)].c = "}"
    /\ \A i \in 2..(Len(t) - 1) : t[i].c \in {"w", "R", "k", "{", "}"}
    /\ \A i \in 1..(Len(t) - 1) : Depth(t, 1, i) > 0
    /\ Depth(t, 1, Len(t)) = 0

\* the Python dict json.loads builds from the object text t: the members at
\* depth 1, a repeated key keeping its last value
ObjectValue(t) ==
    LET top == {i \in 2..(Len(t) - 1) : Depth(t, 1, i - 1) = 1}
        resAt == {i \in top : t[i].c = "R"}
        nested == {i \in 2..(Len(t) - 1) : t[i].c \in {"{", "}", "R", "k"} /\ Depth(t, 1, i - 1) >= 1
                                           /\ ~(i \in top /\ t[i].c \in {"R", "k"})}
        keys == (IF resAt # {} THEN {"results"} ELSE {})
                \cup (IF \E i \in top : t[i].c = "k" THEN {"k"} ELSE {})
                \cup (IF \E i \in top : t[i].c = "{" THEN {"n"} ELSE {})
        lastRes == CHOOSE i \in resAt : \A j \in resAt : j <= i
        NestedBody[i \in 0..Len(t)] ==
            IF i = 0 THEN <<>>
            ELSE IF i \in nested THEN Append(NestedBody[i - 1], t[i]) ELSE NestedBody[i - 1]
    IN PyDict([key \in keys |->
                 CASE key = "results" -> ResultsValue(t[lastRes].n)
                   [] key = "k" -> PyScalar
                   [] OTHER -> [kind |-> "dict", body |-> NestedBody[Len(t)]]])

\* json.loads(s): ok is FALSE where Python raises json.JSONDecodeError
JsonLoads(s) ==
    LET t == Strip(s)
    IN CASE t = <<LST>> -> [ok |-> TRUE, val |-> PyList(<<>>)]
         [] t = <<NUM>> -> [ok |-> TRUE, val |-> PyScalar]
         [] IsObject(t) -> [ok |-> TRUE, val |-> ObjectValue(t)]
         [] OTHER -> [ok |-> FALSE, val |-> PyNone]

\* the first index >= i of s that holds no whitespace (Len(s)+1 if none)
SkipWs(s, i) ==
    LET rest == {j \in i..Len(s) : s[j].c # "w"}
    IN IF rest = {} THEN Len(s) + 1 ELSE CHOOSE j \in rest : \A k \in rest : j <= k

\* re.search(r'```(?:json)?\s*(\{[\s\S]*?\})\s*```', text): found, and group(1)
FenceSearch(s) ==
    LET n == Len(s)
        Open(i) == SkipWs(s, IF i + 1 <= n /\ s[i + 1].c = "j" THEN i + 2 ELSE i + 1)
        Ends(b) == {e \in (b + 1)..n :
                      /\ s[e].c = "}"
                      /\ SkipWs(s, e + 1) <= n
                      /\ s[SkipWs(s, e + 1)].c = "F"}
        starts == {i \in 1..n :
                     /\ s[i].c = "F"
                     /\ Open(i) <= n
                     /\ s[Open(i)].c = "{"
                     /\ Ends(Open(i)) # {}}
    IN IF starts = {} THEN [found |-> FALSE, group |-> <<>>]
       ELSE LET i0 == CHOOSE i \in starts : \A j \in starts : i <= j
                b == Open(i0)
                e == CHOOSE e \in Ends(b) : \A f \in Ends(b) : e <= f
            IN [found |-> TRUE, group |-> SubSeq(s, b, e)]

\* Strategy 1: JSON code block.  tried: json.loads was called
Strategy1(s) ==
    LET m == FenceSearch(s)
    IN IF m.found
       THEN [tried |-> TRUE, ok |-> JsonLoads(m.group).ok, val |-> JsonLoads(m.group).val]
       ELSE [tried |-> FALSE, ok |-> FALSE, val |-> PyNone]

\* an extractor without the balanced-brace scan
Strategy2Skipped(s) == [tried |-> FALSE, ok |-> FALSE, val |-> PyNone]

\* Strategy 2: balanced braces from the first {
Strategy2(s) ==
    LET opens == {i \in 1..Len(s) : s[i].c = "{"}
    IN IF opens = {} THEN [tried |-> FALSE, ok |-> FALSE, val |-> PyNone]
       ELSE LET start == CHOOSE i \in opens : \A j \in opens : i <= j
                closes == {i \in start..Len(s) : s[i].c = "}" /\ Depth(s, start, i) = 0}
            IN IF closes = {} THEN [tried |-> FALSE, ok |-> FALSE, val |-> PyNone]
               ELSE LET last == CHOOSE i \in closes : \A j \in closes : i <= j
                        json_str == SubSeq(s, start, last)
                    IN [tried |-> TRUE, ok |-> JsonLoads(json_str).ok,
                        val |-> JsonLoads(json_str).val]

\* Strategy 3: the entire message
Strategy3(s) == [tried |-> TRUE, ok |-> JsonLoads(s).ok, val |-> JsonLoads(s).val]

_parse_json_from_response(response_text) ==
    IF Strategy1(response_text).ok THEN Strategy1(response_text).val
    ELSE IF Strategy2(response_text).ok THEN Strategy2(response_text).val
    ELSE IF Strategy3(response_text).ok THEN Strategy3(response_text).val
    ELSE PyNone

-----------------------------------------------------------------------------
(* Products *)

MISSING == "<missing>"    \* the key is not in the dict
NONE == "<None>"          \* Python None (JSON null)
NONSTR == "<true>"        \* a truthy JSON value that is no string (true, 5)

\* a product as the request carries it; is_dict is FALSE for a list item
\* that is no JSON object (a string, a number)
Product(pm, m, mpn, pn, sd) ==
    [is_dict |-> TRUE, part_manufacturer |-> pm, manufacturer |-> m,
     manufacturer_part_number |-> mpn, part_number |-> pn, stocking_decision |-> sd]
NotADict ==
    [is_dict |-> FALSE, part_manufacturer |-> MISSING, manufacturer |-> MISSING,
     manufacturer_part_number |-> MISSING, part_number |-> MISSING,
     stocking_decision |-> MISSING]

\* product.get(key) and product.get(key, '')
Get(product, key) == IF product[key] = MISSING THEN NONE ELSE product[key]
GetOr(product, key, default) == IF product[key] = MISSING THEN default ELSE product[key]
\* Python's  a or b  on field values
StrTruthy(v) == v \notin {NONE, ""}
Or(a, b) == IF StrTruthy(a) THEN a ELSE b

-----------------------------------------------------------------------------
(* Fallback Synthesizer: AzureAIService._generate_fallback_json *)

FALLBACK_NOTES == "No assistant message received. Analysis incomplete."

\* a placeholder that reads the raw-upload naming before the persisted one
FallbackStatusRowRawFirst(product) ==
    [manufacturer |-> Or(Get(product, "manufacturer"), GetOr(product, "part_manufacturer", "")),
     part_number |-> Or(Get(product, "part_number"), GetOr(product, "manufacturer_part_number", "")),
     ai_status |-> "Review",
     notes_by_ai |-> FALLBACK_NOTES,
     ai_confidence |-> "Low"]

FallbackStatusRow(product) ==
    [manufacturer |-> Or(Get(product, "part_manufacturer"), GetOr(product, "manufacturer", "")),
     part_number |-> Or(Get(product, "manufacturer_part_number"), GetOr(product, "part_number", "")),
     ai_status |-> "Review",
     notes_by_ai |-> FALLBACK_NOTES,
     ai_confidence |-> "Low"]

FallbackReplacementRow(product) ==
    [obsolete_part_number |-> Or(Get(product, "manufacturer_part_number"), GetOr(product, "part_number", "")),
     manufacturer |-> Or(Get(product, "part_manufacturer"), GetOr(product, "manufacturer", "")),
     recommended_replacement |-> NONE,
     replacement_manufacturer |-> NONE,
     price |-> NONE,
     currency |-> NONE,
     source_type |-> "None",
     source_url |-> "",
     notes |-> FALLBACK_NOTES,
     confidence |-> "Low"]

\* raises: product.get on an item that is no dict (AttributeError)
_generate_fallback_json(products, is_replacement, now) ==
    IF \E i \in 1..Len(products) : ~products[i].is_dict
    THEN [raises |-> TRUE, val |-> PyNone]
    ELSE IF is_replacement
    THEN [raises |-> FALSE,
          val |-> PyDict([checked_date |-> PyStr(now),
                          results |-> PyList([i \in 1..Len(products) |->
                                                 FallbackReplacementRow(products[i])])])]
    ELSE [raises |-> FALSE,
          val |-> PyDict([results |-> PyList([i \in 1..Len(products) |->
                                                 FallbackStatusRow(products[i])])])]

-----------------------------------------------------------------------------
(* Batch Partitioner: split_products_into_chunks *)

\* a slice that takes its upper index in: products[i:j + 1]
SliceInclusive(products, i, j) == SubSeq(products, i + 1, Min(j + 1, Len(products)))

\* products[i:j]
Slice(products, i, j) == SubSeq(products, i + 1, Min(j, Len(products)))

\* for i in range(0, len(products), chunk_size): chunks.append(products[i:i + chunk_size])
RECURSIVE ChunksFrom(_, _, _)
ChunksFrom(products, chunk_size, i) ==
    IF i >= Len(products) THEN <<>>
    ELSE <<Slice(products, i, i + chunk_size)>> \o ChunksFrom(products, chunk_size, i + chunk_size)

\* a partitioner that puts the remainder into the last full chunk
SplitMergingRemainder(products, chunk_size) ==
    LET k == Len(products) \div chunk_size
    IN IF k = 0 THEN (IF products = <<>> THEN <<>> ELSE <<products>>)
       ELSE [i \in 1..k |->
               SubSeq(products, (i - 1) * chunk_size + 1,
                      IF i < k THEN i * chunk_size ELSE Len(products))]

split_products_into_chunks(products, chunk_size) == ChunksFrom(products, chunk_size, 0)

-----------------------------------------------------------------------------
(* The extractor, strategy by strategy *)

Alphabet == {LB, RB, FENCE, WS, PROSE, KV, RES(1)}

\* the texts of n tokens
TextsOfLen(n) == [1..n -> Alphabet]

\* {"k": 1} before a fenced {"results": [row]}
BareThenFenced == <<LB, KV, RB, FENCE, LB, RES(1), RB, FENCE>>
\* ```x``` {"k": 1} ```{"results": [row]}```: a bare object between two blocks
BareBetweenBlocks == <<FENCE, PROSE, FENCE, LB, KV, RB, FENCE, LB, RES(1), RB, FENCE>>
\* ```{x}``` ```{"results": [row]}``` {"k": 1}: the first block does not decode
BadBlockFirst ==
    <<FENCE, LB, PROSE, RB, FENCE, FENCE, LB, RES(1), RB, FENCE, LB, KV, RB>>

\* Scenario A's answer, texts holding a bare object and a fenced one, and
\* texts that are a JSON document but no object
NamedTexts ==
    {<<FENCE, TAG, WS, LB, RES(1), RB, WS, FENCE>>,
     BareThenFenced, BareBetweenBlocks, BadBlockFirst,
     <<LST>>, <<NUM>>, <<WS, LST, WS>>, <<PROSE, LST>>}

ParseIdle == ptext = <<>> /\ pstage = "returned" /\ pout = NotYet /\ ptried = <<>>
ChatIdle == session_conversations = <<>> /\ chat_log = <<>> /\ chat_response = [kind |-> "not-yet"]
PartIdle == part_products = <<>> /\ part_chunk_size = 1 /\ part_chunks = NotYet
FbIdle == fb_products = <<>> /\ fb_is_replacement = FALSE /\ fb_first = NotYet /\ fb_second = NotYet
EnvIdle == today = "2025-01-01" /\ calls = {}
ConIdle == runs = <<>> /\ constructions = 0 /\ run_calls = {} /\ returned = {}
RunIdle ==
    /\ endpoint = "analyze" /\ stream = FALSE /\ request_products = PyList(<<>>) /\ env_ok = TRUE
    /\ agent = "any"
    /\ azure_ai_service = "None" /\ pc = "idle" /\ chunks = <<>> /\ all_results = <<>>
    /\ conversation_id = 0 /\ idx = 0 /\ task = <<>> /\ envelope = <<>> /\ events = <<>>
    /\ response = NotYet

ParseInit ==
    /\ \/ \E n \in 0..MaxTextLen : ptext \in TextsOfLen(n)
       \/ ptext \in NamedTexts
    /\ pstage = "s1"
    /\ pout = NotYet
    /\ ptried = <<>>

ParseStep(stage, next, r) ==
    /\ pstage = stage
    /\ ptried' = IF r.tried THEN Append(ptried, stage) ELSE ptried
    /\ IF r.ok
       THEN pstage' = "returned" /\ pout' = r.val
       ELSE IF next = "returned"
            THEN pstage' = "returned" /\ pout' = PyNone
            ELSE pstage' = next /\ pout' = pout
    /\ UNCHANGED <<ptext, partVars, chatVars, fbVars, reqVars, conVars, runVars, envVars>>

\* an extractor that gives up after the balanced-brace scan
TryBracesThenStop == ParseStep("s2", "returned", Strategy2(ptext))

TryFence == ParseStep("s1", "s2", Strategy1(ptext))
TryBraces == ParseStep("s2", "s3", Strategy2(ptext))
TryWhole == ParseStep("s3", "returned", Strategy3(ptext))

ParseNext == TryFence \/ TryBraces \/ TryWhole

InitParse == ParseInit /\ PartIdle /\ ChatIdle /\ FbIdle /\ RunIdle /\ EnvIdle /\ ConIdle

SpecParse == InitParse /\ [][ParseNext]_vars

-----------------------------------------------------------------------------
(* The partitioner on its own *)

DEFAULT_CHUNK_SIZE == 30

\* products are told apart by their position in the input
Numbered(n) == [i \in 1..n |-> i]

PartInit ==
    /\ \/ \E n \in 0..MaxPartLen, c \in 1..MaxChunkSize :
             part_products = Numbered(n) /\ part_chunk_size = c
       \/ part_products = Numbered(65) /\ part_chunk_size = DEFAULT_CHUNK_SIZE
    /\ part_chunks = NotYet

Partition ==
    /\ part_chunks = NotYet
    /\ part_chunks' = PyList(split_products_into_chunks(part_products, part_chunk_size))
    /\ UNCHANGED <<part_products, part_chunk_size, parseVars, chatVars, fbVars, reqVars, conVars, runVars, envVars>>

InitPartition == PartInit /\ ChatIdle /\ ParseIdle /\ FbIdle /\ RunIdle /\ EnvIdle /\ ConIdle

SpecPartition == InitPartition /\ [][Partition]_vars

-----------------------------------------------------------------------------
(* The synthesizer on its own: two calls on the same products, the clock *)
(* free to pass midnight between them                                     *)

FbProducts ==
    {Product(MISSING, "BANNER", MISSING, "45136", MISSING),    \* raw-upload naming
     Product("ACME", MISSING, "X-1", MISSING, "yes"),          \* persisted-schema naming
     Product("ACME", "BANNER", "X-1", "45136", "no"),          \* both namings
     Product("", "BANNER", NONE, "45136", ""),                 \* first naming empty
     Product(MISSING, MISSING, MISSING, MISSING, MISSING),     \* neither naming
     Product(NONE, NONE, "", "", NONE)}                        \* both empty

RECURSIVE ListsOfLen(_, _)
ListsOfLen(S, n) ==
    IF n = 0 THEN {<<>>} ELSE {Append(l, x) : l \in ListsOfLen(S, n - 1), x \in S}

Dates == {"2025-01-01", "2025-01-02"}

FbInit ==
    /\ fb_products \in UNION {ListsOfLen(FbProducts, n) : n \in 0..MaxFbLen}
    /\ fb_is_replacement \in BOOLEAN
    /\ fb_first = NotYet
    /\ fb_second = NotYet
    /\ today = "2025-01-01"
    /\ calls = {}

FirstFallback ==
    /\ fb_first = NotYet
    /\ fb_first' = _generate_fallback_json(fb_products, fb_is_replacement, today).val
    /\ UNCHANGED <<fb_products, fb_is_replacement, fb_second, today, calls, parseVars, partVars, chatVars, reqVars, conVars, runVars>>

SecondFallback ==
    /\ fb_first # NotYet
    /\ fb_second = NotYet
    /\ fb_second' = _generate_fallback_json(fb_products, fb_is_replacement, today).val
    /\ UNCHANGED <<fb_products, fb_is_replacement, fb_first, today, calls, parseVars, partVars, chatVars, reqVars, conVars, runVars>>

Midnight ==
    /\ today = "2025-01-01"
    /\ today' = "2025-01-02"
    /\ UNCHANGED <<fbVars, calls, parseVars, partVars, chatVars, reqVars, conVars, runVars>>

FbNext == FirstFallback \/ SecondFallback \/ Midnight

InitFallback == FbInit /\ ParseIdle /\ PartIdle /\ ChatIdle /\ RunIdle /\ ConIdle

SpecFallback == InitFallback /\ [][FbNext]_vars

-----------------------------------------------------------------------------
(* /analyze and /find_replacements: analyze_routes.py *)

MaxBatches == 2          \* chunks in a run
MaxSkipped == 2          \* skipped products in a request

CHUNK_SIZE == 10
MAX_WORKERS == 5
max_retries == 3
retry_delay == 2

\* str(v).strip().lower() on the stocking decisions the requests carry
StripLower(v) ==
    CASE v = " No " -> "no"
      [] v = "NO" -> "no"
      [] v = " " -> ""
      [] v = "Yes" -> "yes"
      [] OTHER -> v

\* the filter without the .strip(): a padded "no" is analyzed
ShouldAnalyzeUntrimmed(product) ==
    IF ~product.is_dict THEN [raises |-> TRUE, val |-> FALSE]
    ELSE LET got == Get(product, "stocking_decision")
         IN IF StrTruthy(got) /\ got = NONSTR THEN [raises |-> TRUE, val |-> FALSE]
            ELSE [raises |-> FALSE, val |-> StrTruthy(got) /\ got \notin {"no", "NO"}]

\* _should_analyze_product: raises where .get or .strip is no attribute
_should_analyze_product(product) ==
    IF ~product.is_dict THEN [raises |-> TRUE, val |-> FALSE]
    ELSE LET got == Get(product, "stocking_decision")
         IN IF StrTruthy(got) /\ got = NONSTR THEN [raises |-> TRUE, val |-> FALSE]
            ELSE LET stocking_decision == IF StrTruthy(got) THEN StripLower(got) ELSE ""
                 IN [raises |-> FALSE,
                     val |-> stocking_decision # "" /\ stocking_decision # "no"]

_create_skipped_result(product) ==
    [manufacturer |-> Or(Get(product, "part_manufacturer"), GetOr(product, "manufacturer", "")),
     part_number |-> Or(Get(product, "manufacturer_part_number"), GetOr(product, "part_number", "")),
     ai_status |-> NONE,
     notes_by_ai |-> NONE,
     ai_confidence |-> NONE]

\* [p for p in items if keep(p)]
RECURSIVE Filter(_, _)
Filter(items, keep) ==
    IF items = <<>> THEN <<>>
    ELSE (IF Head(items) \in keep THEN <<Head(items)>> ELSE <<>>) \o Filter(Tail(items), keep)

FilterRaises(items) == \E i \in 1..Len(items) : _should_analyze_product(items[i]).raises
Analyzable(items) == {items[i] : i \in {j \in 1..Len(items) : _should_analyze_product(items[j]).val}}
ProductsToAnalyze(items) == Filter(items, Analyzable(items))
ProductsToSkip(items) ==
    Filter(items, {items[i] : i \in 1..Len(items)} \ Analyzable(items))
\* placeholders listed from the last skipped product to the first
SkippedResultsReversed(items) ==
    [i \in 1..Len(ProductsToSkip(items)) |->
        _create_skipped_result(ProductsToSkip(items)[Len(ProductsToSkip(items)) + 1 - i])]
SkippedResults(items) ==
    [i \in 1..Len(ProductsToSkip(items)) |-> _create_skipped_result(ProductsToSkip(items)[i])]

\* _format_products_for_analysis raises on an item that is no dict
FormatRaises(batch) == \E i \in 1..Len(batch) : ~batch[i].is_dict

\* get_azure_ai_service(): the value of the global after the call (also the value returned)
get_azure_ai_service(current, constructible) ==
    IF current = "None" THEN (IF constructible THEN "instance" ELSE "None") ELSE current

-----------------------------------------------------------------------------
(* Analysis Driver: what one attempt's outcome makes the driver return *)

\* getattr(response, 'id', None) or conversation_id
ResponseId(outcome, prev_id) == IF outcome.id # 0 THEN outcome.id ELSE prev_id

\* the ResultSet the driver carries when the call returned
ParsedOrFallback(batch, outcome, is_replacement, now) ==
    LET response_text == Strip(outcome.text)
        parsed_json == _parse_json_from_response(response_text)
    IN IF response_text = <<>> THEN _generate_fallback_json(batch, is_replacement, now).val
       ELSE IF parsed_json = PyNone THEN _generate_fallback_json(batch, is_replacement, now).val
       ELSE parsed_json

\* analyze_product_chunk: the dict returned when the call returned
ReturnedEnvelope(batch, prev_id, outcome, now) ==
    [success |-> TRUE,
     conversation_id |-> ResponseId(outcome, prev_id),
     parsed_json |-> ParsedOrFallback(batch, outcome, FALSE, now),
     products_analyzed |-> Len(batch),
     has_error |-> FALSE]

\* a driver that gives up after the last attempt: success false, no ResultSet
ExhaustedEnvelopeGivesUp(batch, prev_id, now) ==
    [success |-> FALSE,
     conversation_id |-> prev_id,
     parsed_json |-> PyNone,
     products_analyzed |-> Len(batch),
     has_error |-> TRUE]

\* analyze_product_chunk: the dict returned when the last attempt raised
ExhaustedEnvelope(batch, prev_id, now) ==
    [success |-> TRUE,
     conversation_id |-> prev_id,
     parsed_json |-> _generate_fallback_json(batch, FALSE, now).val,
     products_analyzed |-> Len(batch),
     has_error |-> TRUE]

\* the streaming drivers: the 'result' event when the call returned
ReturnedResult(batch, prev_id, outcome, is_replacement, now) ==
    [type |-> "result",
     conversation_id |-> ResponseId(outcome, prev_id),
     data |-> ParsedOrFallback(batch, outcome, is_replacement, now),
     products_analyzed |-> Len(batch)]

\* a replacement driver whose last except asks for the status-mode fallback
ExhaustedResultStatusMode(batch, prev_id, is_replacement, now) ==
    [type |-> "result",
     conversation_id |-> prev_id,
     data |-> _generate_fallback_json(batch, FALSE, now).val,
     products_analyzed |-> Len(batch)]

\* the streaming drivers: the 'result' event when the last attempt raised
ExhaustedResult(batch, prev_id, is_replacement, now) ==
    [type |-> "result",
     conversation_id |-> prev_id,
     data |-> _generate_fallback_json(batch, is_replacement, now).val,
     products_analyzed |-> Len(batch)]

-----------------------------------------------------------------------------
(* The external agent: what openai_client.responses.create can do *)

GoodText(batch) == <<FENCE, TAG, WS, LB, RES(Len(batch)), RB, WS, FENCE>>
ResponseTexts(batch) ==
    {<<>>,                      \* no text recoverable
     GoodText(batch),           \* one row per product, fenced
     <<LB, RES(0), RB>>,        \* {"results": []}
     <<LB, RES(-1), RB>>,       \* {"results": null}
     <<LB, KV, RB>>,            \* an object without results
     <<PROSE>>,                 \* prose, no JSON
     <<LST>>,                   \* []
     <<NUM>>}                   \* 1

\* the identifier the provider gives the call's response
FreshId(b, attempt) == (b - 1) * max_retries + attempt + 1

\* the responses a call that returns can bring: a text and an id, or no id;
\* every kind of text is tried on a chunk's first attempt, a retried call
\* brings the rows or nothing
Returns(b, attempt, batch) ==
    {[text |-> t, id |-> FreshId(b, attempt)] :
        t \in IF attempt = 0 THEN ResponseTexts(batch) ELSE {<<>>, GoodText(batch)}}
    \cup {[text |-> t, id |-> 0] :
        t \in IF attempt = 0 THEN {<<>>, GoodText(batch)} ELSE {GoodText(batch)}}

\* a reliable agent answers every call with one row per product and an id
ReliableReturns(b, attempt, batch) == {[text |-> GoodText(batch), id |-> FreshId(b, attempt)]}

-----------------------------------------------------------------------------
(* Requests *)

Digits == <<"0", "1", "2", "3", "4", "5", "6", "7", "8", "9">>
PartNo(i) == "P" \o Digits[(i \div 10) + 1] \o Digits[(i % 10) + 1]

SkipDecisions == <<"no", MISSING, " No ", "">>
\* na products to analyze and ns to skip, the skipped ones in the even places
MkProducts(na, ns) ==
    [i \in 1..(na + ns) |->
        LET skipped == IF na = 0 THEN TRUE ELSE (i % 2 = 0 /\ i <= 2 * ns)
            sd == IF skipped THEN SkipDecisions[(i % 4) + 1]
                  ELSE IF i % 3 = 0 THEN "Yes" ELSE "yes"
        IN IF i % 3 = 1 THEN Product(MISSING, "BANNER", MISSING, PartNo(i), sd)
           ELSE IF i % 3 = 2 THEN Product("ACME", MISSING, PartNo(i), MISSING, sd)
           ELSE Product("ACME", "BANNER", PartNo(i), "45136", sd)]

\* one product for every stocking decision the filter tells apart
PolicyDecisions == <<"yes", "no", "Yes", "NO", " No ", "", " ", MISSING, NONE>>
PolicyProducts ==
    [i \in 1..Len(PolicyDecisions) |->
        IF i % 2 = 1 THEN Product(MISSING, "BANNER", MISSING, PartNo(i), PolicyDecisions[i])
        ELSE Product("ACME", MISSING, PartNo(i), MISSING, PolicyDecisions[i])]

AnalyzeCounts == {0, 1} \cup {(b - 1) * CHUNK_SIZE + 1 : b \in 2..MaxBatches}
\* requests of several chunks always carry skipped products among the others
SkipCounts(na) == IF na <= 1 THEN {0, MaxSkipped} ELSE {MaxSkipped}

Requests ==
    \* well-formed product lists (the empty one included)
    UNION {{[endpoint |-> "analyze", stream |-> st, products |-> PyList(MkProducts(na, ns))] :
               st \in BOOLEAN, ns \in SkipCounts(na)} : na \in AnalyzeCounts}
    \cup {[endpoint |-> "analyze", stream |-> st, products |-> PyList(PolicyProducts)] :
               st \in BOOLEAN}
    \cup {[endpoint |-> "find_replacements", stream |-> TRUE, products |-> PyList(MkProducts(na, 0))] :
        na \in AnalyzeCounts}
    \cup {[endpoint |-> "find_replacements", stream |-> TRUE, products |-> PyList(<<p>>)] :
        p \in FbProducts}
    \* products missing or no list
    \cup {[endpoint |-> e, stream |-> FALSE, products |-> v] :
        e \in {"analyze", "find_replacements"}, v \in {PyStr("abc"), PyNone}}
    \* a list whose items are no product records
    \cup {[endpoint |-> e.ep, stream |-> e.st,
           products |-> PyList(<<Product(MISSING, "BANNER", MISSING, "45136", "yes"), bad>>)] :
        e \in {[ep |-> "analyze", st |-> FALSE], [ep |-> "analyze", st |-> TRUE],
               [ep |-> "find_replacements", st |-> TRUE]},
        bad \in {NotADict, Product(MISSING, "BANNER", MISSING, "45137", NONSTR)}}

RunInit ==
    /\ \E r \in Requests :
          endpoint = r.endpoint /\ stream = r.stream /\ request_products = r.products
    /\ env_ok \in BOOLEAN
    /\ agent = "any"
    /\ azure_ai_service = "None"
    /\ pc = "request"
    /\ chunks = <<>>
    /\ all_results = <<>>
    /\ conversation_id = 0
    /\ idx = 0
    /\ task = <<>>
    /\ envelope = <<>>
    /\ events = <<>>
    /\ response = NotYet
    /\ today \in {"2025-01-01"}
    /\ calls = {}

Event(type, chunk, size) == [type |-> type, chunk |-> chunk, size |-> size]
JsonResponse(status, success, results, analyzed, skipped) ==
    [kind |-> "json", status |-> status, success |-> success, results |-> results,
     total_analyzed |-> analyzed, total_skipped |-> skipped]
Terminal(type, results, analyzed, skipped) ==
    [kind |-> type, status |-> 200, success |-> type = "complete", results |-> results,
     total_analyzed |-> analyzed, total_skipped |-> skipped]

\* the responses the run's agent can bring
AgentReturns(b, attempt, batch) ==
    IF agent = "reliable" THEN ReliableReturns(b, attempt, batch) ELSE Returns(b, attempt, batch)

\* how a chunk's last call ended: it raised, or it returned outcome
Raised == [kind |-> "raised"]
Returned(outcome) == [kind |-> "returned", text |-> outcome.text, id |-> outcome.id]

NewTasks(n) ==
    [b \in 1..n |-> [st |-> "queued", attempt |-> 0, slept |-> 0, arg |-> 0, out |-> NotYet,
                     starts |-> 0]]
NoEnvelopes(n) == [b \in 1..n |-> NotYet]
request_items == request_products.items
is_replacement == endpoint = "find_replacements"

-----------------------------------------------------------------------------
(* Request validation, common to both routes *)

\* products is a list (isinstance) that is not empty (truthy); a missing
\* key reads as []
ProductsAccepted == IF request_products.kind = "list" THEN request_products.items # <<>> ELSE FALSE

\* if not products / if not isinstance(products, list): 400
Reject ==
    /\ pc = "request"
    /\ ~ProductsAccepted
    /\ pc' = "responded"
    /\ response' = [kind |-> "json", status |-> 400, success |-> FALSE]
    /\ UNCHANGED <<azure_ai_service, chunks, all_results, conversation_id, idx, task,
                   envelope, events, calls>>
    /\ UNCHANGED <<parseVars, partVars, chatVars, fbVars, reqVars, conVars, today>>

\* return Response(_stream_analysis(products)) / Response(_stream_find_replacements(products))
OpenStream ==
    /\ pc = "request"
    /\ ProductsAccepted
    /\ is_replacement \/ stream
    /\ pc' = "gen_init"
    /\ UNCHANGED <<azure_ai_service, chunks, all_results, conversation_id, idx, task,
                   envelope, events, response, calls>>
    /\ UNCHANGED <<parseVars, partVars, chatVars, fbVars, reqVars, conVars, today>>

-----------------------------------------------------------------------------
(* Parallel Run Coordinator: analyze_products, stream false *)

BulkRequest ==
    /\ pc = "request"
    /\ ProductsAccepted
    /\ ~is_replacement /\ ~stream

\* an exception in the filters reaches the handler's except: 500
BulkFilterRaises ==
    /\ BulkRequest
    /\ FilterRaises(request_items)
    /\ pc' = "responded"
    /\ response' = [kind |-> "json", status |-> 500, success |-> FALSE]
    /\ UNCHANGED <<azure_ai_service, chunks, all_results, conversation_id, idx, task,
                   envelope, events, calls>>
    /\ UNCHANGED <<parseVars, partVars, chatVars, fbVars, reqVars, conVars, today>>

\* products_to_analyze is empty: the skipped placeholders are the answer
BulkNothingToAnalyze ==
    /\ BulkRequest
    /\ ~FilterRaises(request_items)
    /\ ProductsToAnalyze(request_items) = <<>>
    /\ all_results' = SkippedResults(request_items)
    /\ pc' = "responded"
    /\ response' = JsonResponse(200, TRUE, all_results', 0, Len(ProductsToSkip(request_items)))
    /\ UNCHANGED <<azure_ai_service, chunks, conversation_id, idx, task, envelope, events, calls>>
    /\ UNCHANGED <<parseVars, partVars, chatVars, fbVars, reqVars, conVars, today>>

\* get_azure_ai_service() returned None: 503
BulkUnavailable ==
    /\ BulkRequest
    /\ ~FilterRaises(request_items)
    /\ ProductsToAnalyze(request_items) # <<>>
    /\ get_azure_ai_service(azure_ai_service, env_ok) = "None"
    /\ azure_ai_service' = get_azure_ai_service(azure_ai_service, env_ok)
    /\ all_results' = SkippedResults(request_items)
    /\ pc' = "responded"
    /\ response' = [kind |-> "json", status |-> 503, success |-> FALSE]
    /\ UNCHANGED <<chunks, conversation_id, idx, task, envelope, events, calls>>
    /\ UNCHANGED <<parseVars, partVars, chatVars, fbVars, reqVars, conVars, today>>

\* every chunk is submitted to the pool with the conversation_id of that moment
BulkSubmit ==
    /\ BulkRequest
    /\ ~FilterRaises(request_items)
    /\ ProductsToAnalyze(request_items) # <<>>
    /\ get_azure_ai_service(azure_ai_service, env_ok) # "None"
    /\ azure_ai_service' = get_azure_ai_service(azure_ai_service, env_ok)
    /\ all_results' = SkippedResults(request_items)
    /\ chunks' = split_products_into_chunks(ProductsToAnalyze(request_items), CHUNK_SIZE)
    /\ conversation_id' = 0
    /\ task' = [b \in 1..Len(chunks') |->
                  [NewTasks(Len(chunks'))[b] EXCEPT !.arg = conversation_id']]
    /\ envelope' = NoEnvelopes(Len(chunks'))
    /\ pc' = "pool"
    /\ UNCHANGED <<idx, events, response, calls>>
    /\ UNCHANGED <<parseVars, partVars, chatVars, fbVars, reqVars, conVars, today>>

\* a pool with a worker for every chunk
PoolWidthUnbounded == Len(chunks)

\* ThreadPoolExecutor(max_workers=min(len(chunks), 5))
PoolWidth == Min(Len(chunks), MAX_WORKERS)
Busy == {b \in 1..Len(chunks) : task[b].st \in {"calling", "sleeping"}}

\* a worker takes the oldest queued chunk, or wakes from the retry delay, and
\* issues openai_client.responses.create
WorkerCall(b) ==
    /\ pc \in {"pool", "failed"}
    /\ \/ /\ task[b].st = "queued"
          /\ \A c \in 1..(b - 1) : task[c].st # "queued"
          /\ Cardinality(Busy) < PoolWidth
       \/ task[b].st = "sleeping"
    /\ task' = [task EXCEPT ![b].st = "calling",
                            ![b].starts = IF task[b].st = "queued" THEN @ + 1 ELSE @]
    /\ calls' = calls \cup {[batch |-> b, attempt |-> task[b].attempt, token |-> task[b].arg]}
    /\ UNCHANGED <<azure_ai_service, pc, chunks, all_results, conversation_id, idx,
                   envelope, events, response>>
    /\ UNCHANGED <<parseVars, partVars, chatVars, fbVars, reqVars, conVars, today>>

\* the call raises: sleep and retry, or on the last attempt return the fallback
WorkerRaise(b) ==
    /\ pc \in {"pool", "failed"}
    /\ task[b].st = "calling"
    /\ agent = "any"
    /\ IF task[b].attempt < max_retries - 1
       THEN /\ task' = [task EXCEPT ![b].st = "sleeping",
                                    ![b].attempt = @ + 1,
                                    ![b].slept = @ + retry_delay]
            /\ UNCHANGED envelope
       ELSE /\ task' = [task EXCEPT ![b].st = "done", ![b].out = Raised]
            /\ envelope' = [envelope EXCEPT ![b] = ExhaustedEnvelope(chunks[b], task[b].arg, today)]
    /\ UNCHANGED <<azure_ai_service, pc, chunks, all_results, conversation_id, idx,
                   events, response, calls>>
    /\ UNCHANGED <<parseVars, partVars, chatVars, fbVars, reqVars, conVars, today>>

\* the call returns: text or none, decodable or not
WorkerReturn(b) ==
    /\ pc \in {"pool", "failed"}
    /\ task[b].st = "calling"
    /\ \E outcome \in AgentReturns(b, task[b].attempt, chunks[b]) :
          /\ envelope' = [envelope EXCEPT
                            ![b] = ReturnedEnvelope(chunks[b], task[b].arg, outcome, today)]
          /\ task' = [task EXCEPT ![b].st = "done", ![b].out = Returned(outcome)]
    /\ UNCHANGED <<azure_ai_service, pc, chunks, all_results, conversation_id, idx,
                   events, response, calls>>
    /\ UNCHANGED <<parseVars, partVars, chatVars, fbVars, reqVars, conVars, today>>

\* all_results.extend(parsed_json['results']) raises TypeError on a value that
\* is no iterable
ExtendRaises(v) == v.kind # "list"

\* for future in as_completed(...): merge one completed chunk
Merge(b) ==
    /\ pc = "pool"
    /\ task[b].st = "done"
    /\ LET result == envelope[b]
           parsed_json == result.parsed_json
       IN IF result.success /\ Truthy(parsed_json)
          THEN IF HasResults(parsed_json) /\ ExtendRaises(parsed_json.d.results)
               THEN /\ pc' = "failed"
                    /\ UNCHANGED <<all_results, conversation_id>>
               ELSE /\ all_results' = IF HasResults(parsed_json)
                                      THEN all_results \o parsed_json.d.results.items
                                      ELSE all_results
                    /\ conversation_id' = IF result.conversation_id # 0
                                          THEN result.conversation_id ELSE conversation_id
                    /\ UNCHANGED pc
          ELSE UNCHANGED <<pc, all_results, conversation_id>>
    /\ task' = [task EXCEPT ![b].st = "merged"]
    /\ UNCHANGED <<azure_ai_service, chunks, idx, envelope, events, response, calls>>
    /\ UNCHANGED <<parseVars, partVars, chatVars, fbVars, reqVars, conVars, today>>

\* every future was merged: 200
BulkRespond ==
    /\ pc = "pool"
    /\ \A b \in 1..Len(chunks) : task[b].st = "merged"
    /\ pc' = "responded"
    /\ response' = JsonResponse(200, TRUE, all_results, Len(ProductsToAnalyze(request_items)),
                                Len(ProductsToSkip(request_items)))
    /\ UNCHANGED <<azure_ai_service, chunks, all_results, conversation_id, idx, task,
                   envelope, events, calls>>
    /\ UNCHANGED <<parseVars, partVars, chatVars, fbVars, reqVars, conVars, today>>

\* the merge raised: the with-block waits for the pool, then except answers 500
BulkFail ==
    /\ pc = "failed"
    /\ \A b \in 1..Len(chunks) : task[b].st \in {"done", "merged"}
    /\ pc' = "responded"
    /\ response' = [kind |-> "json", status |-> 500, success |-> FALSE]
    /\ UNCHANGED <<azure_ai_service, chunks, all_results, conversation_id, idx, task,
                   envelope, events, calls>>
    /\ UNCHANGED <<parseVars, partVars, chatVars, fbVars, reqVars, conVars, today>>

-----------------------------------------------------------------------------
(* Streaming Run Coordinator: _stream_analysis and _stream_find_replacements. *)
(* Each action runs the generator from one yield to the next.               *)

Emit(e) == events' = Append(events, e)
TotalAnalyzed == IF is_replacement THEN Len(all_results) ELSE Len(ProductsToAnalyze(request_items))
TotalSkipped == IF is_replacement THEN 0 ELSE Len(ProductsToSkip(request_items))

\* _stream_analysis: the filters raise before anything was yielded
GenFilterRaises ==
    /\ pc = "gen_init"
    /\ ~is_replacement
    /\ FilterRaises(request_items)
    /\ Emit(Event("error", 0, 0))
    /\ pc' = "closed"
    /\ response' = Terminal("error", <<>>, 0, 0)
    /\ UNCHANGED <<azure_ai_service, chunks, all_results, conversation_id, idx, task,
                   envelope, calls>>
    /\ UNCHANGED <<parseVars, partVars, chatVars, fbVars, reqVars, conVars, today>>

\* _stream_analysis: total_to_analyze == 0, start with total_chunks 0
GenStartEmpty ==
    /\ pc = "gen_init"
    /\ ~is_replacement
    /\ ~FilterRaises(request_items)
    /\ ProductsToAnalyze(request_items) = <<>>
    /\ all_results' = SkippedResults(request_items)
    /\ Emit(Event("start", 0, Len(request_items)))
    /\ pc' = "after_start0"
    /\ UNCHANGED <<azure_ai_service, chunks, conversation_id, idx, task, envelope,
                   response, calls>>
    /\ UNCHANGED <<parseVars, partVars, chatVars, fbVars, reqVars, conVars, today>>

\* ... followed at once by complete
GenCompleteEmpty ==
    /\ pc = "after_start0"
    /\ Emit(Event("complete", 0, Len(all_results)))
    /\ pc' = "closed"
    /\ response' = Terminal("complete", all_results, TotalAnalyzed, TotalSkipped)
    /\ UNCHANGED <<azure_ai_service, chunks, all_results, conversation_id, idx, task,
                   envelope, calls>>
    /\ UNCHANGED <<parseVars, partVars, chatVars, fbVars, reqVars, conVars, today>>

\* split into chunks and yield start
GenStart ==
    /\ pc = "gen_init"
    /\ IF is_replacement
       THEN /\ chunks' = split_products_into_chunks(request_items, CHUNK_SIZE)
            /\ all_results' = <<>>
       ELSE /\ ~FilterRaises(request_items)
            /\ ProductsToAnalyze(request_items) # <<>>
            /\ chunks' = split_products_into_chunks(ProductsToAnalyze(request_items), CHUNK_SIZE)
            /\ all_results' = SkippedResults(request_items)
    /\ task' = NewTasks(Len(chunks'))
    /\ envelope' = NoEnvelopes(Len(chunks'))
    /\ Emit(Event("start", Len(chunks'), Len(request_items)))
    /\ pc' = "after_start"
    /\ UNCHANGED <<azure_ai_service, conversation_id, idx, response, calls>>
    /\ UNCHANGED <<parseVars, partVars, chatVars, fbVars, reqVars, conVars, today>>

\* get_azure_ai_service() returned None: yield error and return
GenUnavailable ==
    /\ pc = "after_start"
    /\ get_azure_ai_service(azure_ai_service, env_ok) = "None"
    /\ azure_ai_service' = get_azure_ai_service(azure_ai_service, env_ok)
    /\ conversation_id' = 0
    /\ Emit(Event("error", 0, 0))
    /\ pc' = "closed"
    /\ response' = Terminal("error", <<>>, 0, 0)
    /\ UNCHANGED <<chunks, all_results, idx, task, envelope, calls>>
    /\ UNCHANGED <<parseVars, partVars, chatVars, fbVars, reqVars, conVars, today>>

\* the service is there: enter the loop and yield chunk_start for chunk 1
GenFirstChunk ==
    /\ pc = "after_start"
    /\ get_azure_ai_service(azure_ai_service, env_ok) # "None"
    /\ azure_ai_service' = get_azure_ai_service(azure_ai_service, env_ok)
    /\ conversation_id' = 0
    /\ idx' = 1
    /\ Emit(Event("chunk_start", 1, Len(chunks[1])))
    /\ pc' = "after_chunk_start"
    /\ UNCHANGED <<chunks, all_results, task, envelope, response, calls>>
    /\ UNCHANGED <<parseVars, partVars, chatVars, fbVars, reqVars, conVars, today>>

\* the driver generator starts: format the chunk, yield progress
GenProgress ==
    /\ pc = "after_chunk_start"
    /\ ~FormatRaises(chunks[idx])
    /\ task' = [task EXCEPT ![idx].st = "running", ![idx].arg = conversation_id]
    /\ Emit(Event("progress", idx, Len(chunks[idx])))
    /\ pc' = "after_progress"
    /\ UNCHANGED <<azure_ai_service, chunks, all_results, conversation_id, idx, envelope,
                   response, calls>>
    /\ UNCHANGED <<parseVars, partVars, chatVars, fbVars, reqVars, conVars, today>>

\* formatting raises on every attempt, and so does the fallback in the last
\* except: the exception leaves the driver and the coordinator yields error
GenDriverRaises ==
    /\ pc = "after_chunk_start"
    /\ FormatRaises(chunks[idx])
    /\ _generate_fallback_json(chunks[idx], is_replacement, today).raises
    /\ task' = [task EXCEPT ![idx].st = "raised",
                            ![idx].arg = conversation_id,
                            ![idx].attempt = max_retries - 1,
                            ![idx].slept = (max_retries - 1) * retry_delay]
    /\ Emit(Event("error", 0, 0))
    /\ pc' = "closed"
    /\ response' = Terminal("error", <<>>, 0, 0)
    /\ UNCHANGED <<azure_ai_service, chunks, all_results, conversation_id, idx, envelope, calls>>
    /\ UNCHANGED <<parseVars, partVars, chatVars, fbVars, reqVars, conVars, today>>

LogCall == calls' = calls \cup {[batch |-> idx, attempt |-> task[idx].attempt,
                                    token |-> task[idx].arg]}

\* the call raises before the last attempt: sleep, next attempt, yield progress
GenRetry ==
    /\ pc = "after_progress"
    /\ agent = "any"
    /\ task[idx].attempt < max_retries - 1
    /\ LogCall
    /\ task' = [task EXCEPT ![idx].attempt = @ + 1, ![idx].slept = @ + retry_delay]
    /\ Emit(Event("progress", idx, Len(chunks[idx])))
    /\ UNCHANGED <<azure_ai_service, pc, chunks, all_results, conversation_id, idx, envelope,
                   response>>
    /\ UNCHANGED <<parseVars, partVars, chatVars, fbVars, reqVars, conVars, today>>

\* the call raises on the last attempt: yield the fallback as result
GenExhausted ==
    /\ pc = "after_progress"
    /\ agent = "any"
    /\ task[idx].attempt = max_retries - 1
    /\ LogCall
    /\ task' = [task EXCEPT ![idx].st = "done", ![idx].out = Raised]
    /\ envelope' = [envelope EXCEPT
                      ![idx] = ExhaustedResult(chunks[idx], task[idx].arg, is_replacement, today)]
    /\ Emit(Event("result", idx, Len(chunks[idx])))
    /\ pc' = "after_result"
    /\ UNCHANGED <<azure_ai_service, chunks, all_results, conversation_id, idx, response>>
    /\ UNCHANGED <<parseVars, partVars, chatVars, fbVars, reqVars, conVars, today>>

\* the call returns: yield the parsed object, or the fallback, as result
GenResult ==
    /\ pc = "after_progress"
    /\ LogCall
    /\ \E outcome \in AgentReturns(idx, task[idx].attempt, chunks[idx]) :
          /\ envelope' = [envelope EXCEPT
                            ![idx] = ReturnedResult(chunks[idx], task[idx].arg, outcome,
                                                    is_replacement, today)]
          /\ task' = [task EXCEPT ![idx].st = "done", ![idx].out = Returned(outcome)]
    /\ Emit(Event("result", idx, Len(chunks[idx])))
    /\ pc' = "after_result"
    /\ UNCHANGED <<azure_ai_service, chunks, all_results, conversation_id, idx, response>>
    /\ UNCHANGED <<parseVars, partVars, chatVars, fbVars, reqVars, conVars, today>>

\* stream_obj['data'].get('results', []): AttributeError on a value that is no dict
ChunkResults(data) ==
    IF data.kind # "dict" THEN [raises |-> TRUE, val |-> PyNone]
    ELSE IF "results" \in DOMAIN data.d THEN [raises |-> FALSE, val |-> data.d.results]
    ELSE [raises |-> FALSE, val |-> PyList(<<>>)]

\* a coordinator that puts each chunk's rows in front of those it holds
GenChunkCompletePrepends ==
    /\ pc = "after_result"
    /\ LET stream_obj == envelope[idx]
           swallowed == \/ ChunkResults(stream_obj.data).raises
                        \/ ExtendRaises(ChunkResults(stream_obj.data).val)
       IN IF Truthy(stream_obj.data) /\ ~swallowed
          THEN /\ all_results' = ChunkResults(stream_obj.data).val.items \o all_results
               /\ conversation_id' = IF stream_obj.conversation_id # 0
                                     THEN stream_obj.conversation_id ELSE conversation_id
          ELSE UNCHANGED <<all_results, conversation_id>>
    /\ Emit(Event("chunk_complete", idx, Len(chunks)))
    /\ pc' = "after_chunk_complete"
    /\ UNCHANGED <<azure_ai_service, chunks, idx, task, envelope, response, calls>>
    /\ UNCHANGED <<parseVars, partVars, chatVars, fbVars, reqVars, conVars, today>>

\* the coordinator takes the result in (any exception is swallowed by the
\* bare except), the driver generator ends, chunk_complete is yielded
GenChunkComplete ==
    /\ pc = "after_result"
    /\ LET stream_obj == envelope[idx]
           swallowed == \/ ChunkResults(stream_obj.data).raises
                        \/ ExtendRaises(ChunkResults(stream_obj.data).val)
       IN IF Truthy(stream_obj.data) /\ ~swallowed
          THEN /\ all_results' = all_results \o ChunkResults(stream_obj.data).val.items
               /\ conversation_id' = IF stream_obj.conversation_id # 0
                                     THEN stream_obj.conversation_id ELSE conversation_id
          ELSE UNCHANGED <<all_results, conversation_id>>
    /\ Emit(Event("chunk_complete", idx, Len(chunks)))
    /\ pc' = "after_chunk_complete"
    /\ UNCHANGED <<azure_ai_service, chunks, idx, task, envelope, response, calls>>
    /\ UNCHANGED <<parseVars, partVars, chatVars, fbVars, reqVars, conVars, today>>

\* a loop that announces the next chunk with the size of the one just closed
GenNextChunkStaleSize ==
    /\ pc = "after_chunk_complete"
    /\ idx < Len(chunks)
    /\ idx' = idx + 1
    /\ Emit(Event("chunk_start", idx + 1, Len(chunks[idx])))
    /\ pc' = "after_chunk_start"
    /\ UNCHANGED <<azure_ai_service, chunks, all_results, conversation_id, task, envelope,
                   response, calls>>
    /\ UNCHANGED <<parseVars, partVars, chatVars, fbVars, reqVars, conVars, today>>

\* the next chunk: yield chunk_start
GenNextChunk ==
    /\ pc = "after_chunk_complete"
    /\ idx < Len(chunks)
    /\ idx' = idx + 1
    /\ Emit(Event("chunk_start", idx + 1, Len(chunks[idx + 1])))
    /\ pc' = "after_chunk_start"
    /\ UNCHANGED <<azure_ai_service, chunks, all_results, conversation_id, task, envelope,
                   response, calls>>
    /\ UNCHANGED <<parseVars, partVars, chatVars, fbVars, reqVars, conVars, today>>

\* no chunk is left: yield complete with the aggregate
GenComplete ==
    /\ pc = "after_chunk_complete"
    /\ idx = Len(chunks)
    /\ Emit(Event("complete", 0, Len(all_results)))
    /\ pc' = "closed"
    /\ response' = Terminal("complete", all_results, TotalAnalyzed, TotalSkipped)
    /\ UNCHANGED <<azure_ai_service, chunks, all_results, conversation_id, idx, task,
                   envelope, calls>>
    /\ UNCHANGED <<parseVars, partVars, chatVars, fbVars, reqVars, conVars, today>>

-----------------------------------------------------------------------------
Next ==
    \/ Reject
    \/ OpenStream
    \/ BulkFilterRaises
    \/ BulkNothingToAnalyze
    \/ BulkUnavailable
    \/ BulkSubmit
    \/ \E b \in 1..Len(chunks) : WorkerCall(b)
    \/ \E b \in 1..Len(chunks) : WorkerRaise(b)
    \/ \E b \in 1..Len(chunks) : WorkerReturn(b)
    \/ \E b \in 1..Len(chunks) : Merge(b)
    \/ BulkRespond
    \/ BulkFail
    \/ GenFilterRaises
    \/ GenStartEmpty
    \/ GenCompleteEmpty
    \/ GenStart
    \/ GenUnavailable
    \/ GenFirstChunk
    \/ GenProgress
    \/ GenDriverRaises
    \/ GenRetry
    \/ GenExhausted
    \/ GenResult
    \/ GenChunkComplete
    \/ GenNextChunk
    \/ GenComplete

Init == RunInit /\ ParseIdle /\ PartIdle /\ ChatIdle /\ FbIdle /\ ConIdle

Spec == Init /\ [][Next]_vars

-----------------------------------------------------------------------------
(* The worker pool on its own: one non-streaming request of more chunks than *)
(* the pool has workers, answered by a reliable agent                       *)

PoolBatches == 6         \* chunks of the request

PoolInit ==
    /\ endpoint = "analyze"
    /\ stream = FALSE
    /\ request_products = PyList(MkProducts((PoolBatches - 1) * CHUNK_SIZE + 1, 0))
    /\ env_ok = TRUE
    /\ agent = "reliable"
    /\ azure_ai_service \in {"None", "instance"}
    /\ pc = "request"
    /\ chunks = <<>>
    /\ all_results = <<>>
    /\ conversation_id = 0
    /\ idx = 0
    /\ task = <<>>
    /\ envelope = <<>>
    /\ events = <<>>
    /\ response = NotYet
    /\ today = "2025-01-01"
    /\ calls = {}

NextPool ==
    \/ BulkSubmit
    \/ \E b \in 1..Len(chunks) : WorkerCall(b)
    \/ \E b \in 1..Len(chunks) : WorkerReturn(b)
    \/ \E b \in 1..Len(chunks) : Merge(b)
    \/ BulkRespond

InitPool == PoolInit /\ ParseIdle /\ PartIdle /\ ChatIdle /\ FbIdle /\ ConIdle

SpecPool == InitPool /\ [][NextPool]_vars

-----------------------------------------------------------------------------
(* Properties *)

Range(s) == {s[i] : i \in 1..Len(s)}

RECURSIVE Concat(_)
Concat(ss) == IF ss = <<>> THEN <<>> ELSE Head(ss) \o Concat(Tail(ss))

\* a field value that is set and not empty
NonEmpty(v) == v \notin {MISSING, NONE, ""}

\* the run goes through one of the two event generators
Streaming == is_replacement \/ stream
\* the run has answered with its aggregate: 200 and success, or complete
Aggregated ==
    /\ response.kind \in {"json", "complete"}
    /\ response.status = 200
    /\ response.success
\* the request carries a non-empty list of well-formed product records
ValidList ==
    IF ProductsAccepted
    THEN /\ \A i \in 1..Len(request_items) : request_items[i].is_dict
         /\ ~FilterRaises(request_items)
    ELSE FALSE

CallsOf(b) == {c \in calls : c.batch = b}
\* the ResultSet chunk b's driver handed to the coordinator
Carried(b) == IF Streaming THEN envelope[b].data ELSE envelope[b].parsed_json
\* the synthesizer's ResultSet for chunk b in the run's mode
FallbackOf(b) == _generate_fallback_json(chunks[b], is_replacement, today).val
\* what the extractor makes of the text chunk b's call returned
TextOf(b) == Strip(task[b].out.text)
ExtractedOf(b) == _parse_json_from_response(TextOf(b))
\* a conforming ResultSet: a mapping whose results is a sequence
Conforming(v) == IF HasResults(v) THEN v.d.results.kind = "list" ELSE FALSE
\* chunk b's calls all raised, or its last call brought no text, or a text
\* that holds no conforming ResultSet
FailedBatch(b) ==
    \/ task[b].out.kind = "raised"
    \/ /\ task[b].out.kind = "returned"
       /\ (TextOf(b) = <<>> \/ ~Conforming(ExtractedOf(b)))

\* C1 (coverage): whenever /analyze answers with its aggregate (the 200
\* response, or the streaming complete event), results holds exactly one
\* item per submitted product: Len(results) = Len(P).
C1_Coverage ==
    (endpoint = "analyze" /\ Aggregated) => Len(response.results) = Len(request_items)

\* C2 (retry exhaustion): a chunk of the non-streaming run whose call raised
\* on every attempt was called exactly 3 times, and analyze_product_chunk
\* returned (nothing escaped) an envelope with success true whose parsed_json
\* is the fallback for the chunk, one Review/Low row per product.  No chunk is
\* ever called more than 3 times.
C2_RetryExhaustion ==
    (~Streaming) =>
        \A b \in 1..Len(task) :
            /\ Cardinality(CallsOf(b)) <= 3
            /\ task[b].out.kind = "raised" =>
                  /\ Cardinality(CallsOf(b)) = 3
                  /\ {c.attempt : c \in CallsOf(b)} = {0, 1, 2}
                  /\ task[b].st \in {"done", "merged"}
                  /\ envelope[b] # NotYet
                  /\ envelope[b].success = TRUE
                  /\ envelope[b].parsed_json = FallbackOf(b)
                  /\ HasResults(envelope[b].parsed_json)
                  /\ LET rows == envelope[b].parsed_json.d.results.items
                     IN /\ Len(rows) = Len(chunks[b])
                        /\ \A i \in 1..Len(rows) :
                              rows[i].ai_status = "Review" /\ rows[i].ai_confidence = "Low"

C2_Witness ==
    /\ ~Streaming
    /\ \E b \in 1..Len(task) : task[b].st = "merged" /\ task[b].out.kind = "raised"

\* C3 (call returned): when a chunk's call returned, the ResultSet its driver
\* carries is a mapping with a results key; it is the fallback for the chunk
\* if no text was recovered or the extractor found no mapping with results,
\* and the extracted object otherwise.
C3_ReturnedCarriesResultSet ==
    \A b \in 1..Len(task) :
        task[b].out.kind = "returned" =>
            /\ HasResults(Carried(b))
            /\ IF TextOf(b) = <<>> \/ ~HasResults(ExtractedOf(b))
               THEN Carried(b) = FallbackOf(b)
               ELSE Carried(b) = ExtractedOf(b)

\* C4 (extractor's result): the extractor returns None or a mapping that
\* holds a results key, never a value of another shape.
C4_NoneOrResultsMapping ==
    pstage = "returned" => (pout = PyNone \/ HasResults(pout))

\* C5 (partition law): the chunks returned concatenate back to the products
\* in order, every chunk has between 1 and chunk_size items, and no products
\* give no chunks.
C5_PartitionLaw ==
    part_chunks # NotYet =>
        LET cs == part_chunks.items
        IN /\ Concat(cs) = part_products
           /\ \A i \in 1..Len(cs) : 1 <= Len(cs[i]) /\ Len(cs[i]) <= part_chunk_size
           /\ (part_products = <<>> => cs = <<>>)

C5_Witness ==
    /\ part_chunks # NotYet
    /\ Len(part_chunks.items) >= 3
    /\ Len(part_chunks.items[Len(part_chunks.items)]) < part_chunk_size

\* C6 (streaming termination): a stream that has ended yielded exactly one
\* start, as its first event, and exactly one terminal event (complete or
\* error), as its last.
C6_StartFirstTerminalLast ==
    pc = "closed" =>
        /\ events # <<>>
        /\ events[1].type = "start"
        /\ Cardinality({j \in 1..Len(events) : events[j].type = "start"}) = 1
        /\ events[Len(events)].type \in {"complete", "error"}
        /\ Cardinality({j \in 1..Len(events) : events[j].type \in {"complete", "error"}}) = 1


\* a sub-event the driver yields, relayed by the coordinator
IsSubEvent(e) == e.type \in {"progress", "result"}
\* f may follow e in a run over k chunks that ends with complete
Follows(e, f, k) ==
    CASE e.type = "start" ->
           IF k = 0 THEN f.type = "complete" ELSE f.type = "chunk_start" /\ f.chunk = 1
      [] e.type = "chunk_start" \/ IsSubEvent(e) ->
           (IsSubEvent(f) \/ f.type = "chunk_complete") /\ f.chunk = e.chunk
      [] e.type = "chunk_complete" ->
           IF e.chunk < k THEN f.type = "chunk_start" /\ f.chunk = e.chunk + 1
           ELSE f.type = "complete"
      [] OTHER -> FALSE
EndsWithComplete == pc = "closed" /\ events[Len(events)].type = "complete"

\* C7 (event order): a stream over k chunks that ended with complete yielded
\* start; then for i = 1..k in order chunk_start(i) with products_in_chunk the
\* size of chunk i, the driver's sub-events for chunk i, chunk_complete(i);
\* then complete.  Each chunk_start(i) is closed by chunk_complete(i) before
\* chunk_start(i + 1), and no sub-event lies outside such a pair.
C7_EventOrder ==
    EndsWithComplete =>
        /\ events[1].type = "start"
        /\ \A j \in 1..(Len(events) - 1) : Follows(events[j], events[j + 1], Len(chunks))
        /\ \A j \in 1..Len(events) :
              events[j].type = "chunk_start" => events[j].size = Len(chunks[events[j].chunk])
        /\ \A i \in 1..Len(chunks) :
              /\ Cardinality({j \in 1..Len(events) :
                                events[j].type = "chunk_start" /\ events[j].chunk = i}) = 1
              /\ Cardinality({j \in 1..Len(events) :
                                events[j].type = "chunk_complete" /\ events[j].chunk = i}) = 1

C7_Witness ==
    /\ EndsWithComplete
    /\ Len(chunks) = MaxBatches
    /\ \E j \in 1..(Len(events) - 1) :
          events[j].type = "progress" /\ events[j + 1].type = "progress"

\* C8 (graceful degradation): /analyze on a valid product list with the
\* service available never hard-fails, whatever the calls do: the run ends
\* with success (200, or complete and no error event), and for every chunk
\* that failed (every attempt raised, no text, or no conforming ResultSet in
\* the text) the aggregate holds a Review/Low placeholder for each product.
C8_NeverHardFails ==
    (endpoint = "analyze" /\ ValidList /\ env_ok /\ pc \in {"responded", "closed"}) =>
        /\ Aggregated
        /\ \A j \in 1..Len(events) : events[j].type # "error"
        /\ \A b \in 1..Len(chunks) :
              FailedBatch(b) =>
                  \A i \in 1..Len(chunks[b]) :
                      \E r \in Range(response.results) :
                          /\ r.part_number = FallbackStatusRow(chunks[b][i]).part_number
                          /\ r.ai_status = "Review"
                          /\ r.ai_confidence = "Low"

\* the naming rule of the placeholders: the first non-empty of the persisted
\* and the raw-upload field, when one of them is non-empty
NamedAfter(value, persisted, raw) ==
    /\ NonEmpty(persisted) => value = persisted
    /\ (~NonEmpty(persisted) /\ NonEmpty(raw)) => value = raw

\* C9 (status-mode fallback): the fallback for products P with is_replacement
\* false has Len(P) items in P's order, item i named after product i (first
\* non-empty of the two namings) with ai_status Review, ai_confidence Low and
\* the fixed notes; a second call on P returns an equal ResultSet; no external
\* call is made.
C9_StatusFallback ==
    (fb_first # NotYet /\ ~fb_is_replacement) =>
        /\ HasResults(fb_first)
        /\ LET rows == fb_first.d.results.items
           IN /\ Len(rows) = Len(fb_products)
              /\ \A i \in 1..Len(rows) :
                    /\ NamedAfter(rows[i].manufacturer, fb_products[i].part_manufacturer,
                                  fb_products[i].manufacturer)
                    /\ NamedAfter(rows[i].part_number, fb_products[i].manufacturer_part_number,
                                  fb_products[i].part_number)
                    /\ rows[i].ai_status = "Review"
                    /\ rows[i].ai_confidence = "Low"
                    /\ rows[i].notes_by_ai = "No assistant message received. Analysis incomplete."
        /\ (fb_second # NotYet => fb_second = fb_first)
        /\ calls = {}

C9_Witness ==
    /\ ~fb_is_replacement
    /\ fb_second # NotYet
    /\ today = "2025-01-02"
    /\ Len(fb_products) = MaxFbLen
    /\ \E i \in 1..Len(fb_products) :
          NonEmpty(fb_products[i].part_manufacturer) /\ NonEmpty(fb_products[i].manufacturer)

\* chunk b of a replacement run was answered with a fallback
ReplacementFallback(b) ==
    /\ is_replacement
    /\ \/ task[b].out.kind = "raised"
       \/ /\ task[b].out.kind = "returned"
          /\ (TextOf(b) = <<>> \/ ExtractedOf(b) = PyNone)

\* the replacement-mode placeholder for product with the notes text given
ReplacementShape(rs, batch, notes) ==
    /\ HasResults(rs)
    /\ "checked_date" \in DOMAIN rs.d
    /\ rs.d.checked_date = PyStr(today)
    /\ Len(rs.d.results.items) = Len(batch)
    /\ \A i \in 1..Len(batch) :
          LET row == rs.d.results.items[i]
          IN /\ NamedAfter(row.obsolete_part_number, batch[i].manufacturer_part_number,
                           batch[i].part_number)
             /\ NamedAfter(row.manufacturer, batch[i].part_manufacturer, batch[i].manufacturer)
             /\ row.recommended_replacement = NONE
             /\ row.replacement_manufacturer = NONE
             /\ row.price = NONE
             /\ row.currency = NONE
             /\ row.confidence = "Low"
             /\ row.source_type = "None"
             /\ row.notes = notes
             /\ {"ai_status", "notes_by_ai", "ai_confidence"} \cap DOMAIN row = {}

\* C10 as stated (replacement-mode fallback): every fallback of a replacement
\* run has one item per product of the chunk, in order, with the replacement
\* fields null, confidence Low, source_type "None", a notes text saying that
\* no documented replacement was found, a checked_date at the ResultSet level,
\* and no status-check field.
C10_AsStated ==
    \A b \in 1..Len(task) :
        ReplacementFallback(b) =>
            ReplacementShape(envelope[b].data, chunks[b], "No documented replacement found")

\* C10 (replacement-mode fallback): every fallback of a replacement run has
\* one item per product of the chunk, in order, with the replacement fields
\* null, confidence Low, source_type "None", the notes text of the status
\* mode ("No assistant message received. Analysis incomplete."), a
\* checked_date at the ResultSet level, and no status-check field.
C10_ReplacementFallback ==
    \A b \in 1..Len(task) :
        ReplacementFallback(b) =>
            ReplacementShape(envelope[b].data, chunks[b],
                             "No assistant message received. Analysis incomplete.")

C10_Witness ==
    /\ pc = "closed"
    /\ Len(chunks) = MaxBatches
    /\ \E b \in 1..Len(task) : ReplacementFallback(b) /\ task[b].out.kind = "raised"
    /\ \E b \in 1..Len(task) : ReplacementFallback(b) /\ task[b].out.kind = "returned"


\* t is a valid encoded ResultSet: one JSON object with results at its top
IsEncodedResultSet(t) == IF IsObject(t) THEN HasResults(ObjectValue(t)) ELSE FALSE
\* s is made of tokens of the classes given only
MadeOf(s, classes) == \A i \in 1..Len(s) : s[i].c \in classes
\* pre and post wrap an object into one fenced block
FencedBy(pre, post) ==
    /\ pre \in {<<FENCE>>, <<FENCE, WS>>, <<FENCE, TAG>>, <<FENCE, TAG, WS>>}
    /\ post \in {<<FENCE>>, <<WS, FENCE>>}
\* the text the extractor was given is an encoded ResultSet alone, fenced, or
\* between runs of prose whose tokens are of the classes given; the value
\* returned is the one the extractor returns for the ResultSet alone
SameAsAlone(proseClasses) ==
    \A i \in 1..Len(ptext) : \A j \in i..Len(ptext) :
        LET R == SubSeq(ptext, i, j)
            pre == SubSeq(ptext, 1, i - 1)
            post == SubSeq(ptext, j + 1, Len(ptext))
        IN (/\ IsEncodedResultSet(R)
            /\ \/ FencedBy(pre, post)
               \/ MadeOf(pre, proseClasses) /\ MadeOf(post, proseClasses))
           => pout = _parse_json_from_response(R)

\* C11 as stated (extractor idempotence): an encoded ResultSet R alone, R in
\* a fenced block, and R between arbitrary leading and trailing prose (words,
\* whitespace, braces) all give the value the extractor gives for R alone.
C11_AsStated ==
    pstage = "returned" => SameAsAlone({"x", "w", "{", "}"})

\* C11 (extractor idempotence): an encoded ResultSet R alone, R in a fenced
\* block, and R between leading and trailing prose that holds no brace and
\* no fence all give the value the extractor gives for R alone.
C11_Idempotence ==
    pstage = "returned" => SameAsAlone({"x", "w"})

C11_Witness ==
    /\ pstage = "returned"
    /\ ptext = <<PROSE, LB, RES(1), RB, PROSE>>
    /\ pout = _parse_json_from_response(<<LB, RES(1), RB>>)
    /\ HasResults(pout)


\* the braces of s pair up: never more closed than opened, none left open
Balanced(s) ==
    /\ \A i \in 1..Len(s) : Depth(s, 1, i) >= 0
    /\ Depth(s, 1, Len(s)) = 0
NoOpenBrace(s) == \A i \in 1..Len(s) : s[i].c # "{"

\* C12 (extractor failure mode): for a text that holds no { at all, and for
\* a text whose braces are unbalanced, the extractor returns None.
C12_NoBraceOrUnbalancedGivesNone ==
    (pstage = "returned" /\ (NoOpenBrace(ptext) \/ ~Balanced(ptext))) => pout = PyNone


\* the identifier the provider returned for the most recent of the chunks
\* 1..b whose call returned one (0: none did)
RECURSIVE LastToken(_)
LastToken(b) ==
    IF b = 0 THEN 0
    ELSE IF task[b].out.kind = "returned" /\ task[b].out.id # 0 THEN task[b].out.id
    ELSE LastToken(b - 1)

\* C13 (token threading, streaming): the calls of the first chunk carry no
\* token, the calls of each later chunk carry the identifier the provider
\* returned for the most recent earlier chunk that returned one, and after a
\* chunk the coordinator holds that identifier (unchanged when the chunk's
\* call returned none or raised on every attempt).
C13_TokenThreading ==
    Streaming =>
        /\ \A c \in calls : c.token = LastToken(c.batch - 1)
        /\ pc = "after_chunk_complete" => conversation_id = LastToken(idx)


\* the tokens the coordinator observed from the chunks it has merged
ObservedTokens == {envelope[b].conversation_id : b \in {c \in 1..Len(task) : task[c].st = "merged"}} \ {0}

\* C14 (token threading, parallel): a chunk that leaves the queue for its
\* first call after the coordinator observed a token from a completed chunk
\* is called with a token observed from a completed chunk, not with none.
C14_PendingChunkGetsToken ==
    [][\A b \in 1..Len(task) :
          (/\ ~Streaming
           /\ Len(task') = Len(task)
           /\ task[b].st = "queued"
           /\ task'[b].st = "calling"
           /\ ObservedTokens # {})
          => task'[b].arg \in ObservedTokens]_vars

\* the chunks whose external call is in flight
InFlight == {b \in 1..Len(task) : task[b].st = "calling"}

\* C15 (pool width): in the non-streaming run never more than
\* min(number of chunks, 5) external calls are in flight, and every chunk is
\* dispatched to the pool once: there is one task per chunk, no task starts
\* twice, and when the run has answered every task has started once.
C15_PoolWidth ==
    (~Streaming) =>
        /\ Cardinality(InFlight) <= Min(Len(chunks), 5)
        /\ Len(task) = Len(chunks)
        /\ \A b \in 1..Len(task) :
              /\ task[b].starts <= 1
              /\ task[b].st # "queued" => task[b].starts = 1
              /\ Cardinality({c \in CallsOf(b) : c.attempt = 0}) = task[b].starts
        /\ pc = "responded" => \A b \in 1..Len(task) : task[b].starts = 1

C15_Witness ==
    /\ ~Streaming
    /\ Len(chunks) > 5
    /\ Cardinality(InFlight) = 5
    /\ \E b \in 1..Len(task) : task[b].st = "queued"


\* the rows the streaming coordinator takes from a result event's data
\* (analyze_routes.py 234-236; an exception is swallowed, no row is taken)
StreamRows(data) ==
    IF ~Truthy(data) THEN <<>>
    ELSE IF ChunkResults(data).raises THEN <<>>
    ELSE IF ExtendRaises(ChunkResults(data).val) THEN <<>>
    ELSE ChunkResults(data).val.items
\* the rows the parallel coordinator takes from an envelope's parsed_json
\* (analyze_routes.py 155-158), and whether taking them raises
BulkRaises(parsed_json) ==
    IF Truthy(parsed_json) /\ HasResults(parsed_json)
    THEN ExtendRaises(parsed_json.d.results) ELSE FALSE
BulkRows(parsed_json) ==
    IF Truthy(parsed_json) /\ HasResults(parsed_json) /\ ~BulkRaises(parsed_json)
    THEN parsed_json.d.results.items ELSE <<>>
\* the ResultSet the status-mode drivers carry for the outcome of chunk b
OutcomeData(b) ==
    IF task[b].out.kind = "raised" THEN _generate_fallback_json(chunks[b], FALSE, today).val
    ELSE ParsedOrFallback(chunks[b], task[b].out, FALSE, today)
\* the aggregate of either coordinator for the outcomes of the chunks 1..b
RECURSIVE StreamAggregate(_)
StreamAggregate(b) ==
    IF b = 0 THEN SkippedResults(request_items)
    ELSE StreamAggregate(b - 1) \o StreamRows(OutcomeData(b))
RECURSIVE BulkAggregate(_)
BulkAggregate(b) ==
    IF b = 0 THEN SkippedResults(request_items)
    ELSE BulkAggregate(b - 1) \o BulkRows(OutcomeData(b))
\* a and b hold the same rows, each as often
SameRows(a, b) ==
    \A r \in Range(a) \cup Range(b) :
        Cardinality({i \in 1..Len(a) : a[i] = r}) = Cardinality({i \in 1..Len(b) : b[i] = r})
\* /analyze has ended a run on a valid list with the service available
AnalyzeRunEnded ==
    /\ endpoint = "analyze"
    /\ ValidList
    /\ env_ok
    /\ pc \in {"responded", "closed"}

\* C16 (bulk and streaming agree): for the same products and the same outcome
\* of every chunk's call, the non-streaming response and the streaming
\* complete event hold the same rows as a multiset, with equal total_analyzed
\* and total_skipped.  Stated at the end of a run of either mode against the
\* aggregate the other mode makes of the same outcomes.
C16_BulkEqualsStream ==
    AnalyzeRunEnded =>
        /\ Aggregated
        /\ \A b \in 1..Len(chunks) : ~BulkRaises(OutcomeData(b))
        /\ response.results = (IF stream THEN StreamAggregate(Len(chunks))
                               ELSE response.results)
        /\ SameRows(response.results,
                    IF stream THEN BulkAggregate(Len(chunks)) ELSE StreamAggregate(Len(chunks)))
        /\ response.total_analyzed = Len(ProductsToAnalyze(request_items))
        /\ response.total_skipped = Len(ProductsToSkip(request_items))


\* C17 (validation before work): a request whose products is missing, empty
\* or no list of product records is rejected with a 4xx status, and nothing
\* is partitioned, no service is constructed and no call is made for it.
C17_MalformedRejected ==
    ~ValidList =>
        /\ chunks = <<>>
        /\ azure_ai_service = "None"
        /\ calls = {}
        /\ pc \in {"responded", "closed"} =>
              (response.status >= 400 /\ response.status <= 499)


\* the stocking decisions that are absent, empty or "no" once trimmed and
\* lower-cased, among those the requests carry
AbsentEmptyOrNo == {MISSING, NONE, "", " ", "no", "NO", " No "}
SkippedByPolicy(p) == p.stocking_decision \in AbsentEmptyOrNo
\* row is the placeholder of product p: its identity, and no AI field
PlaceholderOf(p, row) ==
    /\ row.part_number \in {p.part_number, p.manufacturer_part_number} \ {MISSING}
    /\ row.ai_status = NONE
    /\ row.notes_by_ai = NONE
    /\ row.ai_confidence = NONE
\* /analyze is handling a valid list
AnalyzeRun == endpoint = "analyze" /\ ValidList /\ pc # "request"

\* C18 (skip policy): on /analyze a product is skipped exactly when its
\* stocking decision is absent, empty or "no" (trimmed, any case); no skipped
\* product is in a chunk sent to the agent; the answer holds exactly one
\* placeholder, with null ai_status, notes_by_ai and ai_confidence, for each
\* skipped product; total_analyzed + total_skipped is the number submitted.
\* Stated where the run has ended: its chunks are those it made at the start.
C18_SkipPolicy ==
    (pc \in {"responded", "closed"} /\ AnalyzeRun) =>
        /\ \A i \in 1..Len(request_items) :
              _should_analyze_product(request_items[i]).val = ~SkippedByPolicy(request_items[i])
        /\ \A b \in 1..Len(chunks) : \A j \in 1..Len(chunks[b]) : ~SkippedByPolicy(chunks[b][j])
        /\ Aggregated =>
              /\ \A i \in 1..Len(request_items) :
                    SkippedByPolicy(request_items[i]) =>
                        Cardinality({k \in 1..Len(response.results) :
                                        PlaceholderOf(request_items[i], response.results[k])}) = 1
              /\ response.total_skipped =
                    Cardinality({i \in 1..Len(request_items) : SkippedByPolicy(request_items[i])})
              /\ response.total_analyzed + response.total_skipped = Len(request_items)
\* a run over every kind of stocking decision has answered, after its call
C18_Witness ==
    /\ AnalyzeRun
    /\ request_items = PolicyProducts
    /\ pc \in {"responded", "closed"}
    /\ Aggregated
    /\ calls # {}
    /\ response.total_skipped = 7
    /\ response.total_analyzed = 2


-----------------------------------------------------------------------------
(* Concurrent requests of one process: every request is served by its own
   thread; azure_ai_service is the one module global they share, and each
   handler's conversation_id is a local of its thread *)

MaxRuns == 2             \* request threads in the process
MaxRunChunks == 2        \* chunks of each request
MaxBulkRuns == 1         \* non-streaming requests among the threads

Runs == 1..MaxRuns
RunChunks == 1..MaxRunChunks
\* the instances AzureAIService() returns, in the order of construction
Instances == <<"instance", "instance2", "instance3", "instance4">>
\* the response id the agent gives for chunk b of run r (0 is None)
ResponseIdOf(r, b) == r * 10 + b
RunOfToken(t) == t \div 10

\* how a chunk's call can end for the coordinator: with a response id and a
\* result it handles, with a response id and a result whose handling raises
\* or is skipped, or with no response id (driver fallbacks included)
RunOutcomes(r, b) ==
    {[id |-> ResponseIdOf(r, b), handled |-> TRUE],
     [id |-> ResponseIdOf(r, b), handled |-> FALSE],
     [id |-> 0, handled |-> TRUE]}

\* the most recent response id of the whole process
ProcessWideToken(r) ==
    IF returned = {} THEN 0 ELSE CHOOSE t \in returned : \A u \in returned : u <= t
\* the handler's local conversation_id, as its next call carries it
TokenFor(r) == runs[r].conversation_id

NewRun(mode) ==
    [mode |-> mode, pc |-> "test", service |-> "None", conversation_id |-> 0, arg |-> 0,
     st |-> [b \in RunChunks |-> "queued"]]

ConInit ==
    /\ runs \in [Runs -> {NewRun(m) : m \in {"bulk", "stream"}}]
    \* the threads are interchangeable: the non-streaming ones come first
    /\ \A r, q \in Runs : (r < q /\ runs[r].mode = "stream") => runs[q].mode = "stream"
    /\ Cardinality({r \in Runs : runs[r].mode = "bulk"}) <= MaxBulkRuns
    /\ constructions = 0
    /\ run_calls = {}
    /\ returned = {}
    /\ endpoint = "analyze" /\ stream = FALSE /\ request_products = PyList(<<>>)
    /\ env_ok = TRUE /\ agent = "any"
    /\ azure_ai_service = "None" /\ pc = "idle" /\ chunks = <<>> /\ all_results = <<>>
    /\ conversation_id = 0 /\ idx = 0 /\ task = <<>> /\ envelope = <<>> /\ events = <<>>
    /\ response = NotYet

conRest == <<parseVars, partVars, chatVars, fbVars, reqVars, envVars, pc, chunks, all_results,
             conversation_id, idx, task, envelope, events, response>>

\* if azure_ai_service is None:
SvcTest(r) ==
    /\ runs[r].pc = "test"
    /\ runs' = [runs EXCEPT ![r].pc = IF azure_ai_service = "None" THEN "construct" ELSE "return"]
    /\ UNCHANGED <<azure_ai_service, constructions, run_calls, returned, conRest>>

\* azure_ai_service = AzureAIService(): a new instance is bound to the global
SvcConstruct(r) ==
    /\ runs[r].pc = "construct"
    /\ constructions' = constructions + 1
    /\ azure_ai_service' = Instances[constructions']
    /\ runs' = [runs EXCEPT ![r].pc = "return"]
    /\ UNCHANGED <<run_calls, returned, conRest>>

\* AzureAIService() raised: return None, the request answers 503 / error
SvcConstructFails(r) ==
    /\ runs[r].pc = "construct"
    /\ runs' = [runs EXCEPT ![r].pc = "done"]
    /\ UNCHANGED <<azure_ai_service, constructions, run_calls, returned, conRest>>

\* return azure_ai_service: the global as it is now
SvcReturn(r) ==
    /\ runs[r].pc = "return"
    /\ runs' = [runs EXCEPT ![r].service = azure_ai_service, ![r].pc = "run"]
    /\ UNCHANGED <<azure_ai_service, constructions, run_calls, returned, conRest>>

\* the pool's submit binds conversation_id to every chunk's call
RunSubmit(r) ==
    /\ runs[r].pc = "run"
    /\ runs[r].mode = "bulk"
    /\ runs' = [runs EXCEPT ![r].arg = TokenFor(r), ![r].pc = "pool"]
    /\ UNCHANGED <<azure_ai_service, constructions, run_calls, returned, conRest>>

\* a worker makes the call of chunk b with the argument bound at submit
RunWorkerCall(r, b) ==
    /\ runs[r].pc = "pool"
    /\ runs[r].st[b] = "queued"
    /\ run_calls' = run_calls \cup {[run |-> r, batch |-> b, token |-> runs[r].arg]}
    /\ runs' = [runs EXCEPT ![r].st[b] = "called"]
    /\ UNCHANGED <<azure_ai_service, constructions, returned, conRest>>

\* the streaming loop makes the call of the next chunk with conversation_id
RunStreamCall(r, b) ==
    /\ runs[r].pc = "run"
    /\ runs[r].mode = "stream"
    /\ runs[r].st[b] = "queued"
    /\ \A c \in RunChunks : c < b => runs[r].st[c] = "merged"
    /\ run_calls' = run_calls \cup {[run |-> r, batch |-> b, token |-> TokenFor(r)]}
    /\ runs' = [runs EXCEPT ![r].st[b] = "called"]
    /\ UNCHANGED <<azure_ai_service, constructions, returned, conRest>>

\* chunk b's call has ended, with a response id or without; the coordinator
\* takes the envelope's conversation_id (the id, or the token the call
\* carried) unless handling the result raised before the assignment
RunMerge(r, b) ==
    /\ runs[r].pc \in {"pool", "run"}
    /\ runs[r].st[b] = "called"
    /\ \E out \in RunOutcomes(r, b) :
          LET id == out.id
              handled == out.handled
              carried == IF runs[r].mode = "bulk" THEN runs[r].arg ELSE runs[r].conversation_id
              env_id == ResponseId([id |-> id], carried)
              st2 == [runs[r].st EXCEPT ![b] = "merged"]
          IN /\ returned' = returned \cup ({id} \ {0})
             /\ runs' = [runs EXCEPT
                            ![r].st = st2,
                            ![r].conversation_id =
                                IF handled /\ env_id # 0 THEN env_id ELSE @,
                            ![r].pc = IF \A c \in RunChunks : st2[c] = "merged"
                                      THEN "done" ELSE @]
    /\ UNCHANGED <<azure_ai_service, constructions, run_calls, conRest>>

NextConcurrent ==
    \/ \E r \in Runs : SvcTest(r)
    \/ \E r \in Runs : SvcConstruct(r)
    \/ \E r \in Runs : SvcConstructFails(r)
    \/ \E r \in Runs : SvcReturn(r)
    \/ \E r \in Runs : RunSubmit(r)
    \/ \E r \in Runs, b \in RunChunks : RunWorkerCall(r, b)
    \/ \E r \in Runs, b \in RunChunks : RunStreamCall(r, b)
    \/ \E r \in Runs, b \in RunChunks : RunMerge(r, b)

InitConcurrent == ConInit /\ ParseIdle /\ PartIdle /\ ChatIdle /\ FbIdle /\ EnvIdle

SpecConcurrent == InitConcurrent /\ [][NextConcurrent]_vars

\* the runs of requests that have all obtained the process's service
TokensInit ==
    /\ runs \in [Runs -> {[NewRun(m) EXCEPT !.pc = "run", !.service = "instance"] :
                             m \in {"bulk", "stream"}}]
    /\ \A r, q \in Runs : (r < q /\ runs[r].mode = "stream") => runs[q].mode = "stream"
    /\ Cardinality({r \in Runs : runs[r].mode = "bulk"}) <= MaxBulkRuns
    /\ constructions = 1
    /\ run_calls = {}
    /\ returned = {}
    /\ endpoint = "analyze" /\ stream = FALSE /\ request_products = PyList(<<>>)
    /\ env_ok = TRUE /\ agent = "any"
    /\ azure_ai_service = "instance" /\ pc = "idle" /\ chunks = <<>> /\ all_results = <<>>
    /\ conversation_id = 0 /\ idx = 0 /\ task = <<>> /\ envelope = <<>> /\ events = <<>>
    /\ response = NotYet

NextTokens ==
    \/ \E r \in Runs : RunSubmit(r)
    \/ \E r \in Runs, b \in RunChunks : RunWorkerCall(r, b)
    \/ \E r \in Runs, b \in RunChunks : RunStreamCall(r, b)
    \/ \E r \in Runs, b \in RunChunks : RunMerge(r, b)

InitTokens == TokensInit /\ ParseIdle /\ PartIdle /\ ChatIdle /\ FbIdle /\ EnvIdle

SpecTokens == InitTokens /\ [][NextTokens]_vars

\* C19 (token never crosses runs): every run starts with no token, and for
\* any interleaving of concurrent runs each call carries no token or a token
\* the agent returned earlier in the same run.
C19_TokenStaysInRun ==
    /\ \A r \in DOMAIN runs :
          (\A c \in run_calls : c.run # r) => (runs[r].conversation_id = 0 /\ runs[r].arg = 0)
    /\ \A c \in run_calls :
          c.token # 0 => (c.token \in returned /\ RunOfToken(c.token) = c.run)
\* two runs are under way at once and each has a call in flight that carries
\* a token it got back earlier
C19_Witness ==
    /\ runs # <<>>
    /\ \A r \in {1, 2} :
          /\ runs[r].pc = "run"
          /\ \E c \in run_calls :
                c.run = r /\ c.token # 0 /\ runs[r].st[c.batch] = "called"

\* C20 (one service per process): however concurrent requests interleave,
\* AzureAIService is constructed successfully at most once, and all requests
\* that obtain a service obtain the same instance.
C20_OneService ==
    /\ constructions <= 1
    /\ \A r, q \in DOMAIN runs :
          (runs[r].service # "None" /\ runs[q].service # "None") =>
              runs[r].service = runs[q].service


-----------------------------------------------------------------------------
\* the request has reported that the service is not configured: the 503 of
\* the non-streaming handler, or the error event a generator yields right
\* after start when get_azure_ai_service() returned None
ConfigurationErrorReported ==
    \/ response.kind = "json" /\ response.status = 503
    \/ /\ Streaming
       /\ Len(events) = 2
       /\ events[1].type = "start"
       /\ events[2].type = "error"

\* C21 (configuration errors are not per request): a missing agent identity
\* or missing credentials is fatal when the service is constructed; no
\* /analyze or /find_replacements request returns or streams a
\* configuration error.
C21_NoConfigurationErrorPerRequest == ~ConfigurationErrorReported


\* the driver has left chunk b: it returned an envelope, yielded its result,
\* or let an exception out
DriverFinished(b) == task[b].st \in {"done", "merged", "raised"}
\* the attempts of chunk b that issued the external call
AttemptsCalled(b) == {c.attempt : c \in CallsOf(b)}

\* C22 (retry discipline): for each batch the driver issues between 1 and 3
\* external calls; a new call follows only an attempt that raised; the first
\* attempt that returns ends the batch, whatever text it brought; the delay
\* of 2 is taken once between two consecutive attempts and not after the
\* third failure.
C22_RetryDiscipline ==
    \A b \in 1..Len(task) :
        /\ Cardinality(CallsOf(b)) = Cardinality(AttemptsCalled(b))
        /\ AttemptsCalled(b) \subseteq 0..task[b].attempt
        /\ task[b].attempt <= 2
        /\ DriverFinished(b) =>
              /\ AttemptsCalled(b) = 0..task[b].attempt
              /\ Cardinality(CallsOf(b)) \in 1..3
              /\ task[b].slept = 2 * (Cardinality(CallsOf(b)) - 1)
        /\ task[b].out.kind = "returned" => DriverFinished(b)
        /\ task[b].out.kind = "raised" =>
              (DriverFinished(b) /\ Cardinality(CallsOf(b)) = 3 /\ task[b].slept = 4)
\* the same, for the requests whose list holds product records only
C22_OnValidLists == ValidList => C22_RetryDiscipline


-----------------------------------------------------------------------------
\* the fences of s in order, and its code blocks: the spans between the
\* fences 2k-1 and 2k
FenceAt(s) == {i \in 1..Len(s) : s[i].c = "F"}
NthFence(s, k) ==
    CHOOSE i \in FenceAt(s) : Cardinality({j \in FenceAt(s) : j <= i}) = k
BlockCount(s) == Cardinality(FenceAt(s)) \div 2
\* the content of block k, without the language tag
BlockBody(s, k) ==
    LET a == NthFence(s, 2 * k - 1) + 1
        b == NthFence(s, 2 * k) - 1
    IN IF a <= b /\ s[a].c = "j" THEN SubSeq(s, a + 1, b) ELSE SubSeq(s, a, b)
InBlock(s, i) ==
    \E k \in 1..BlockCount(s) : NthFence(s, 2 * k - 1) <= i /\ i <= NthFence(s, 2 * k)
\* the objects s holds in a code block, and those it holds outside every block
FencedObjects(s) ==
    {JsonLoads(BlockBody(s, k)).val :
        k \in {j \in 1..BlockCount(s) : IsObject(Strip(BlockBody(s, j)))}}
BareObjects(s) ==
    {ObjectValue(SubSeq(s, a, b)) :
        <<a, b>> \in {ab \in (1..Len(s)) \X (1..Len(s)) :
                        /\ ab[1] <= ab[2]
                        /\ \A i \in ab[1]..ab[2] : ~InBlock(s, i)
                        /\ IsObject(SubSeq(s, ab[1], ab[2]))}}
StrategyRank(stage) == CASE stage = "s1" -> 1 [] stage = "s2" -> 2 [] OTHER -> 3

-----------------------------------------------------------------------------
\* the rows the streaming coordinator took from the result events of the
\* chunks 1..b, chunk after chunk
RECURSIVE StreamedRows(_)
StreamedRows(b) ==
    IF b = 0 THEN <<>> ELSE StreamedRows(b - 1) \o StreamRows(envelope[b].data)
\* what the generator holds before its loop: the placeholders, or nothing
RowsBeforeLoop == IF is_replacement THEN <<>> ELSE SkippedResults(request_items)

\* C24 (streaming is sequential): in a streaming run at most one external
\* call is in flight; no call for a chunk is issued before the driver has
\* finished every earlier chunk; in the complete event the rows of chunk i
\* precede the rows of chunk j for i < j.
C24_StreamingSequential ==
    /\ [](Streaming =>
            /\ \A c \in calls : c.batch <= idx
            /\ \A b \in 1..Len(task) : b < idx => task[b].st = "done"
            /\ \A b \in 1..Len(task) : b > idx => task[b].out = NotYet
            /\ response.kind = "complete" =>
                  response.results = RowsBeforeLoop \o StreamedRows(Len(chunks)))
    /\ [][Streaming =>
            /\ Cardinality(calls' \ calls) <= 1
            /\ \A c \in calls' \ calls :
                  /\ c.batch = idx
                  /\ pc = "after_progress"
                  /\ task[idx].out = NotYet
                  /\ \A b \in 1..(idx - 1) : task[b].st = "done"]_vars
\* a streaming run of two chunks has sent complete with rows taken from both,
\* the second chunk's being the fallback rows of its products
C24_Witness ==
    /\ Streaming
    /\ response.kind = "complete"
    /\ Len(chunks) = 2
    /\ StreamRows(envelope[1].data) # <<>>
    /\ StreamRows(envelope[2].data) # <<>>
    /\ StreamRows(envelope[1].data) # StreamRows(envelope[2].data)
    /\ \A b \in {1, 2} : CallsOf(b) # {}


-----------------------------------------------------------------------------
(* A consumer that abandons the event stream: closing a generator raises
   GeneratorExit at the yield it is suspended at; no handler of the
   coordinators or of the drivers catches it (they catch Exception, and the
   bare except of the coordinators encloses no yield), so both generators end *)

\* the generator is suspended at a yield that is not its last
SuspendedAtYield ==
    pc \in {"after_start0", "after_start", "after_chunk_start", "after_progress",
            "after_result", "after_chunk_complete"}
\* what the consumer has of an abandoned stream: the events it took, and the
\* number of agent calls made by then
Abandoned(seen, called) == [kind |-> "abandoned", status |-> 200, seen |-> seen, called |-> called]

\* a generator that swallows GeneratorExit and goes on
AbandonIgnored ==
    /\ Streaming
    /\ SuspendedAtYield
    /\ response = NotYet
    /\ response' = Abandoned(Len(events), Cardinality(calls))
    /\ UNCHANGED <<azure_ai_service, pc, chunks, all_results, conversation_id, idx, task,
                   envelope, events, calls>>
    /\ UNCHANGED <<parseVars, partVars, chatVars, fbVars, reqVars, conVars, today>>

\* the consumer closes the stream after the last event it took
Abandon ==
    /\ Streaming
    /\ SuspendedAtYield
    /\ response = NotYet
    /\ pc' = "abandoned"
    /\ response' = Abandoned(Len(events), Cardinality(calls))
    /\ UNCHANGED <<azure_ai_service, chunks, all_results, conversation_id, idx, task,
                   envelope, events, calls>>
    /\ UNCHANGED <<parseVars, partVars, chatVars, fbVars, reqVars, conVars, today>>

NextAbandon ==
    \/ OpenStream
    \/ GenFilterRaises
    \/ GenStartEmpty
    \/ GenCompleteEmpty
    \/ GenStart
    \/ GenUnavailable
    \/ GenFirstChunk
    \/ GenProgress
    \/ GenDriverRaises
    \/ GenRetry
    \/ GenExhausted
    \/ GenResult
    \/ GenChunkComplete
    \/ GenNextChunk
    \/ GenComplete
    \/ Abandon

\* the requests that are answered with an event stream
InitAbandon == Init /\ Streaming /\ ProductsAccepted

SpecAbandon == InitAbandon /\ [][NextAbandon]_vars

\* C25 (abandonment stops the run): once the consumer has abandoned the
\* stream after an event, no further event is emitted and no further agent
\* call is issued; the chunks not started by then are never sent to the agent.
C25_AbandonStops ==
    response.kind = "abandoned" =>
        /\ Len(events) = response.seen
        /\ Cardinality(calls) = response.called
        /\ \A b \in 1..Len(chunks) : b > idx => CallsOf(b) = {}
        /\ \A j \in 1..Len(events) : events[j].type \notin {"complete", "error"}
\* a run of two chunks was abandoned while its first chunk was under way,
\* after a call was made for it
C25_Witness ==
    /\ response.kind = "abandoned"
    /\ Len(chunks) = 2
    /\ idx = 1
    /\ CallsOf(1) # {}
    /\ CallsOf(2) = {}


-----------------------------------------------------------------------------
\* the sizes of the chunks returned
ChunkSizes == [i \in 1..Len(part_chunks.items) |-> Len(part_chunks.items[i])]

\* C26 (chunk sizes): for a list of len products and a chunk size n > 0 the
\* partitioner returns ceil(len / n) chunks; every chunk but the last has
\* exactly n items and the last holds what remains; 65 products with n = 30
\* give the sizes 30, 30, 5.
C26_ChunkSizes ==
    part_chunks # NotYet =>
        LET len == Len(part_products)
            n == part_chunk_size
            count == (len + n - 1) \div n
        IN /\ Len(ChunkSizes) = count
           /\ \A i \in 1..(count - 1) : ChunkSizes[i] = n
           /\ count > 0 => ChunkSizes[count] = len - n * (count - 1)
           /\ (len = 65 /\ n = 30) => ChunkSizes = <<30, 30, 5>>
\* the partitioner has split 65 products by 30
C26_Witness ==
    /\ part_chunks # NotYet
    /\ Len(part_products) = 65
    /\ part_chunk_size = 30
    /\ ChunkSizes = <<30, 30, 5>>


-----------------------------------------------------------------------------
(* The chat service (src/app.py): /chat and /clear over session_conversations *)

MaxRequests == 3         \* /chat and /clear requests served

Sessions == {"default", "s1"}
\* the session_id of a request body: absent, or one of the sessions
SessionInputs == Sessions \cup {MISSING}
\* the message of a request body
Messages == {"", " ", "hi"}

\* data.get("session_id", "default")
SessionOf(sid) == IF sid = MISSING THEN "default" ELSE sid
\* data.get("message", "").strip()
StripMessage(m) == IF m = " " THEN "" ELSE m

required_fields == {"manufacturer", "part_number", "ai_status", "notes_by_ai", "ai_confidence"}

\* the texts the provider answers with
ChatTexts ==
    {<<>>, <<PROSE>>, <<NUM>>, <<LB, RB>>, <<LB, KV, RB>>,
     <<FENCE, TAG, WS, LB, RES(1), RB, WS, FENCE>>,
     <<WS, LB, RES(1), RB, WS>>,
     <<PROSE, LB, RES(2), RB, PROSE>>,
     <<FENCE, LB, RB, FENCE, LB, RES(1), RB>>,
     <<LB, RES(0), RB>>, <<LB, RES(-1), RB>>, <<LB, RES(-2), RB>>,
     <<LB, RES(-3), RB>>, <<LB, RES(-4), RB>>, <<LB, RES(-5), RB>>}

\* what client.responses.create does: it raises, or it returns a text and a
\* conversation id (0: none); n is the id a new conversation would get
ProviderOutcomes(n) ==
    {[raises |-> TRUE, text |-> <<>>, id |-> 0]}
    \cup {[raises |-> FALSE, text |-> t, id |-> i] : t \in ChatTexts, i \in {0, n}}

\* the balanced-brace scan of /chat: found, and the text it cut out
BraceScan(s) ==
    LET opens == {i \in 1..Len(s) : s[i].c = "{"}
    IN IF opens = {} THEN [found |-> FALSE, json_str |-> <<>>]
       ELSE LET start == CHOOSE i \in opens : \A j \in opens : i <= j
                closes == {i \in start..Len(s) : s[i].c = "}" /\ Depth(s, start, i) = 0}
            IN IF closes = {} THEN [found |-> FALSE, json_str |-> <<>>]
               ELSE LET last == CHOOSE i \in closes : \A j \in closes : i <= j
                    IN [found |-> TRUE, json_str |-> SubSeq(s, start, last)]

\* Strategy 1 of /chat: a decoded fenced object replaces assistant_message
FenceDecoded(m, j, text) ==
    IF m.found /\ j.ok THEN [parsed_json |-> j.val, assistant_message |-> m.group]
    ELSE [parsed_json |-> PyNone, assistant_message |-> text]
ChatFence(text) == FenceDecoded(FenceSearch(text), JsonLoads(FenceSearch(text).group), text)

\* Strategy 2 of /chat, run while parsed_json is falsy, on assistant_message
BracesDecoded(r, b, j) ==
    IF b.found /\ j.ok THEN [parsed_json |-> j.val, assistant_message |-> b.json_str]
    ELSE r
ChatBraces(r) ==
    IF Truthy(r.parsed_json) THEN r
    ELSE BracesDecoded(r, BraceScan(r.assistant_message),
                       JsonLoads(BraceScan(r.assistant_message).json_str))

\* Strategy 3 of /chat, run while parsed_json is falsy, on assistant_message
WholeDecoded(r, j) ==
    IF j.ok THEN [parsed_json |-> j.val, assistant_message |-> r.assistant_message] ELSE r
ChatWhole(r) ==
    IF Truthy(r.parsed_json) THEN r ELSE WholeDecoded(r, JsonLoads(r.assistant_message))

\* the three strategies of /chat, each working on what the earlier ones left
ChatExtract(text) == ChatWhole(ChatBraces(ChatFence(text)))

\* all(field in first_result for field in required_fields): a dict is asked
\* for its keys, a string for substrings, a number or None raises TypeError
AllFieldsIn(first_result) ==
    IF "kind" \notin DOMAIN first_result
    THEN [raises |-> FALSE, val |-> required_fields \subseteq DOMAIN first_result]
    ELSE IF first_result.kind = "str"
    THEN [raises |-> FALSE, val |-> first_result.s = FIELD_NAMES]
    ELSE [raises |-> TRUE, val |-> FALSE]

ChatResponse(status, format, resp, text) ==
    [kind |-> "response", status |-> status, format |-> format, response |-> resp,
     text |-> text]

\* the answer of chat() for the text and what the strategies made of it
ReplyFor(output_text, original_message, x) ==
    IF Truthy(x.parsed_json) /\ HasResults(x.parsed_json)
          /\ x.parsed_json.d["results"].kind = "list"
          /\ x.parsed_json.d["results"].items # <<>>
    THEN IF AllFieldsIn(x.parsed_json.d["results"].items[1]).raises
         THEN ChatResponse(500, "none", <<>>, output_text)
         ELSE IF AllFieldsIn(x.parsed_json.d["results"].items[1]).val
         THEN ChatResponse(200, "json", x.assistant_message, output_text)
         ELSE ChatResponse(200, "text", original_message, output_text)
    ELSE ChatResponse(200, "text", original_message, output_text)

\* the part of chat() after the provider returned output_text
ChatReply(output_text) ==
    ReplyFor(output_text, Strip(output_text), ChatExtract(Strip(output_text)))

\* a handler that files every token under the default session
StoreTokenDefault(map, session_id, id) ==
    IF id # 0 THEN [map EXCEPT !["default"] = id] ELSE map

\* if getattr(resp, "conversation_id", None): session_conversations[session_id] = ...
StoreToken(map, session_id, id) ==
    IF id # 0 THEN [map EXCEPT ![session_id] = id] ELSE map

LogEntry(op, session_id, outcome, sent, got, after) ==
    [op |-> op, session |-> session_id, outcome |-> outcome, sent |-> sent, got |-> got,
     before |-> session_conversations, after |-> after]

chatRest == <<parseVars, partVars, fbVars, reqVars, runVars, envVars, conVars>>

\* /chat with an empty message: 400 before the session is looked up
ChatRejected ==
    /\ Len(chat_log) < MaxRequests
    /\ \E sid \in SessionInputs, message \in Messages :
         /\ StripMessage(message) = ""
         /\ chat_response' = ChatResponse(400, "none", <<>>, <<>>)
         /\ chat_log' = Append(chat_log, LogEntry("chat", SessionOf(sid), "rejected", 0, 0,
                                                  session_conversations))
    /\ UNCHANGED <<session_conversations, chatRest>>

\* /chat whose provider call raises: 500
ChatFails ==
    /\ Len(chat_log) < MaxRequests
    /\ \E sid \in SessionInputs, message \in Messages :
         LET session_id == SessionOf(sid)
             conversation_id_sent == session_conversations[session_id]
         IN /\ StripMessage(message) # ""
            /\ chat_response' = ChatResponse(500, "none", <<>>, <<>>)
            /\ chat_log' = Append(chat_log, LogEntry("chat", session_id, "failed",
                                                     conversation_id_sent, 0,
                                                     session_conversations))
    /\ UNCHANGED <<session_conversations, chatRest>>

\* /chat whose provider call returns
ChatReturns ==
    /\ Len(chat_log) < MaxRequests
    /\ \E sid \in SessionInputs, message \in Messages,
          outcome \in ProviderOutcomes(Len(chat_log) + 1) :
         LET session_id == SessionOf(sid)
             conversation_id_sent == session_conversations[session_id]
             stored == StoreToken(session_conversations, session_id, outcome.id)
         IN /\ StripMessage(message) # ""
            /\ ~outcome.raises
            /\ session_conversations' = stored
            /\ chat_response' = ChatReply(outcome.text)
            /\ chat_log' = Append(chat_log, LogEntry("chat", session_id, "returned",
                                                     conversation_id_sent, outcome.id,
                                                     stored))
    /\ UNCHANGED chatRest

chat == ChatRejected \/ ChatFails \/ ChatReturns

\* /clear
clear_history ==
    /\ Len(chat_log) < MaxRequests
    /\ \E sid \in SessionInputs :
         LET session_id == SessionOf(sid)
             cleared == [session_conversations EXCEPT ![session_id] = 0]
         IN /\ session_conversations' = cleared
            /\ chat_response' = ChatResponse(200, "none", <<>>, <<>>)
            /\ chat_log' = Append(chat_log, LogEntry("clear", session_id, "cleared", 0, 0,
                                                     cleared))
    /\ UNCHANGED chatRest

ChatInit ==
    /\ session_conversations = [s \in Sessions |-> 0]
    /\ chat_log = <<>>
    /\ chat_response = NotYet

NextChat == chat \/ clear_history

InitChat == ChatInit /\ ParseIdle /\ PartIdle /\ FbIdle /\ RunIdle /\ EnvIdle /\ ConIdle

SpecChat == InitChat /\ [][NextChat]_vars

\* the last request served was a /chat whose provider call returned
ChatAnswered ==
    /\ chat_log # <<>>
    /\ chat_log[Len(chat_log)].op = "chat"
    /\ chat_log[Len(chat_log)].outcome = "returned"

\* v is a mapping whose results is a non-empty list whose first item is a
\* mapping with the five required fields
RequiredShape(v) ==
    /\ HasResults(v)
    /\ v.d["results"].kind = "list"
    /\ v.d["results"].items # <<>>
    /\ "kind" \notin DOMAIN v.d["results"].items[1]
    /\ required_fields \subseteq DOMAIN v.d["results"].items[1]

\* C27 (format of the /chat answer): whenever the provider call returned, the
\* answer has format "json" only if the decoded object has the required shape,
\* and in every other case it has format "text" and carries the model text
\* (surrounding whitespace apart) instead of an extracted part of it.
C27_ChatFormat ==
    ChatAnswered =>
        LET v == ChatExtract(Strip(chat_response.text)).parsed_json
        IN /\ chat_response.format = "json" => RequiredShape(v)
           /\ ~RequiredShape(v) =>
                /\ chat_response.format = "text"
                /\ chat_response.response = Strip(chat_response.text)


\* the token the session map holds for session s after the first i requests,
\* told from the log alone: the token of the latest /chat of s that got one,
\* unless a /clear of s came after it
RECURSIVE SessionToken(_, _)
SessionToken(i, s) ==
    IF i = 0 THEN 0
    ELSE LET e == chat_log[i]
         IN IF e.session = s /\ e.op = "clear" THEN 0
            ELSE IF e.session = s /\ e.outcome = "returned" /\ e.got # 0 THEN e.got
            ELSE SessionToken(i - 1, s)

\* C29 (session tokens): the token a /chat of session s sends to the provider
\* is the one the provider most recently returned for an earlier /chat of s
\* since the last /clear of s (none if there is no such token); no request
\* changes the entry of another session; a rejected /chat and a /chat whose
\* provider call fails leave the session map as it was.
C29_SessionTokens ==
    /\ \A i \in 1..Len(chat_log) :
         LET e == chat_log[i]
         IN /\ (e.op = "chat" /\ e.outcome \in {"failed", "returned"}) =>
                  e.sent = SessionToken(i - 1, e.session)
            /\ \A s \in Sessions \ {e.session} : e.after[s] = e.before[s]
            /\ e.outcome \in {"rejected", "failed"} => e.after = e.before
            /\ e.before = (IF i = 1 THEN [s \in Sessions |-> 0] ELSE chat_log[i - 1].after)
    /\ chat_log # <<>> => session_conversations = chat_log[Len(chat_log)].after
\* a /chat of one session got a token, a /chat of the other session got
\* another, and the next /chat of the first session sent the first token
C29_Witness ==
    /\ Len(chat_log) = 3
    /\ \A i \in 1..3 : chat_log[i].op = "chat" /\ chat_log[i].outcome = "returned"
    /\ chat_log[1].session = chat_log[3].session
    /\ chat_log[2].session # chat_log[1].session
    /\ chat_log[1].got # 0
    /\ chat_log[2].got # 0
    /\ chat_log[3].sent = chat_log[1].got


-----------------------------------------------------------------------------
\* the events the streaming driver of chunk b has yielded, in order
DriverEvents(b) ==
    SelectSeq(events, LAMBDA e : e.chunk = b /\ e.type \in {"progress", "result", "error"})

\* C28 (events of a streaming driver): for every batch and every behaviour of
\* the external call, the streaming driver yields one progress event per
\* attempt (1 to 3 of them), then exactly one result event, which is its last
\* event, and never an error event.
C28_DriverEvents ==
    Streaming => \A b \in 1..Len(task) :
        LET d == DriverEvents(b)
            n == Len(d)
        IN /\ \A i \in 1..n : d[i].type # "error"
           /\ \A i \in 1..(n - 1) : d[i].type = "progress"
           /\ Cardinality({i \in 1..n : d[i].type = "progress"}) <= max_retries
           /\ DriverFinished(b) =>
                 /\ n >= 2
                 /\ d[n].type = "result"
                 /\ n - 1 = task[b].attempt + 1
\* the same, for the requests whose list holds product records only
C28_OnValidLists == ValidList => C28_DriverEvents


-----------------------------------------------------------------------------
\* the skipped products of the request, in input order
SkippedInOrder == SelectSeq(request_items, SkippedByPolicy)

\* C30 (placeholders first): in the non-streaming answer and in the streaming
\* complete event of /analyze, results starts with the placeholders of all
\* skipped products in input order; the rows of the analysed batches, parsed
\* or fallback, follow, and none of them precedes a placeholder.
C30_PlaceholdersFirst ==
    (pc \in {"responded", "closed"} /\ AnalyzeRun /\ Aggregated) =>
        LET skipped == SkippedInOrder
            n == Len(skipped)
        IN /\ Len(response.results) >= n
           /\ \A k \in 1..n : PlaceholderOf(skipped[k], response.results[k])
           /\ \A k \in (n + 1)..Len(response.results) : response.results[k].ai_status # NONE
\* an answer with two placeholders followed by rows of an analysed batch
C30_Witness ==
    /\ pc \in {"responded", "closed"}
    /\ AnalyzeRun
    /\ Aggregated
    /\ Len(SkippedInOrder) >= 2
    /\ Len(response.results) > Len(SkippedInOrder)
    /\ calls # {}

=============================================================================
